---- MODULE Spec2Model ----
(***************************************************************************)
(* NetCheck API server (Go, package main): the per-(IP, route) token-      *)
(* bucket rate limiter, the in-memory TTL response cache, the cache key,   *)
(* the authentication middleware and the HTTP handlers.                    *)
(*                                                                         *)
(* Time is counted in ticks of 1/TicksPerSecond second.  A float64 token   *)
(* count is represented exactly as an integer number of token units, with  *)
(* TokenScale units to one token, so that tokens + elapsed * refillRate is *)
(* computed without rounding.                                              *)
(***************************************************************************)
EXTENDS Integers, Sequences, FiniteSets, TLC

VARIABLES
    now,        \* the wall clock (time.Now()), in ticks
    buckets,    \* RateLimiter.buckets: key "ip|route" -> tokenBucket
    rlLast,     \* observer: the latest call of allow and what it did
    rlHist,     \* observer: per key, the calls since the bucket was created
    rlCalls,    \* observer: number of calls of allow made so far
    ticks,      \* observer: number of times the clock has advanced
    items,      \* Cache.items of apiCache: key -> cacheItem
    cacheLast,  \* observer: the latest call of Cache.Get or Cache.Set
    cacheSets,  \* observer: per key, the value the latest Set stored
    keyIn,      \* cacheKey's arguments: the route and the parameter map
    keyOut,     \* the strings successive calls of cacheKey returned for keyIn
    env,        \* the process environment: GIN_MODE and API_SECRET_KEY
    srvLast,    \* observer: the latest HTTP request and what the engine did with it
    srvSeen,    \* observer: per route and parameters, the latest call a handler answered
    srvStored,  \* observer: per route and parameters, the latest call that stored its report
    nreq,       \* observer: number of HTTP requests served so far
    goroutines, \* handleComprehensive: per task, where its goroutine is and what it has to send
    resultChan, \* handleComprehensive: the results sent and not yet received
    agg,        \* handleComprehensive: the handler's position, locals and response
    chkIn,      \* a checker call: the checker, its argument and what the network does
    chkOut,     \* the report the checker call returned
    mu,         \* RateLimiter.mu: the goroutine that holds the mutex, 0 when it is free
    allowCalls, \* per goroutine calling allow: its position, its locals and its result
    cchMu,      \* Cache.mu: the goroutine holding the write lock and those holding read locks
    cacheCalls  \* per goroutine calling Cache.Get or Cache.Set: its position and locals

clockVars == <<now, ticks>>

rlVars == <<buckets, rlLast, rlHist, rlCalls>>

cacheVars == <<items, cacheLast, cacheSets>>

keyVars == <<keyIn, keyOut>>

srvVars == <<env, srvLast, srvSeen, srvStored, nreq>>

compVars == <<goroutines, resultChan, agg>>

chkVars == <<chkIn, chkOut>>

concVars == <<mu, allowCalls, cchMu, cacheCalls>>

vars == <<now, ticks, buckets, rlLast, rlHist, rlCalls, items, cacheLast, cacheSets,
          keyIn, keyOut, env, srvLast, srvSeen, srvStored, nreq,
          goroutines, resultChan, agg, chkIn, chkOut,
          mu, allowCalls, cchMu, cacheCalls>>

\* ------------------------------------------------------------------------
\* Bounds of the model
\* ------------------------------------------------------------------------
TicksPerSecond == 2

MaxTicks == 2

MaxCalls == 8

MaxRequests == 2

MaxRepeats == 3

MaxFlood == 8

\* ------------------------------------------------------------------------
\* Generic helpers
\* ------------------------------------------------------------------------
EmptyMap == [k \in {} |-> 0]

MapPut(m, k, v) == [x \in DOMAIN m \cup {k} |-> IF x = k THEN v ELSE m[x]]

MapDel(m, k) == [x \in DOMAIN m \ {k} |-> m[x]]

\* ------------------------------------------------------------------------
\* Rate limiting (per-IP, per-route)
\* ------------------------------------------------------------------------
SecondsPerMinute == 60

\* token units per token: one unit is what a bucket of 1 rpm gains per tick
TokenScale == SecondsPerMinute * TicksPerSecond

\* float64(n) in token units
Float(n) == n * TokenScale

defaultRpm == 60

perRoute ==
    ( "/api/v1/comprehensive" :> 6 ) @@
    ( "/api/v1/robots-txt"    :> 10 ) @@
    ( "/api/v1/sitemap"       :> 10 ) @@
    ( "/api/v1/blocklist"     :> 10 ) @@
    ( "/api/v1/web-settings"  :> 20 ) @@
    ( "/api/v1/og-image"      :> 15 )

minFloat(a, b) == IF a < b THEN a ELSE b

\* the effective requests-per-minute limit of a route
RouteRpm(route) == IF route \in DOMAIN perRoute THEN perRoute[route] ELSE defaultRpm

RLKey(ip, route) == ip \o "|" \o route

\* mutant: a new bucket holds one token more than its capacity
tokenBucket_extra(rpm, t) ==
    [ capacity   |-> rpm,
      tokens     |-> Float(rpm + 1),
      refillRate |-> rpm,
      lastRefill |-> t ]

\* a bucket as allow creates it at time t for a limit of rpm
tokenBucket(rpm, t) ==
    [ capacity   |-> rpm,
      tokens     |-> Float(rpm),
      refillRate |-> rpm,          \* token units per tick = rpm/60 tokens per second
      lastRefill |-> t ]

\* mutant: the refill is not capped at the capacity
Refill_uncapped(b, t) ==
    LET elapsed == t - b.lastRefill
    IN  IF elapsed > 0
        THEN [b EXCEPT !.tokens = b.tokens + elapsed * b.refillRate, !.lastRefill = t]
        ELSE b

\* mutant: the refill moves lastRefill but adds no tokens
Refill_none(b, t) ==
    LET elapsed == t - b.lastRefill
    IN  IF elapsed > 0 THEN [b EXCEPT !.lastRefill = t] ELSE b

\* the refill step of allow on bucket b at time t
Refill(b, t) ==
    LET elapsed == t - b.lastRefill
    IN  IF elapsed > 0
        THEN [b EXCEPT !.tokens = minFloat(Float(b.capacity), b.tokens + elapsed * b.refillRate),
                       !.lastRefill = t]
        ELSE b

\* mutant: a request is admitted only when more than one token is left
allow_strict(bk, ip, route, t) ==
    LET rpm == RouteRpm(route)
    IN  IF rpm <= 0
        THEN [ok |-> TRUE, buckets |-> bk]
        ELSE LET key == RLKey(ip, route)
                 b0  == IF key \in DOMAIN bk THEN bk[key] ELSE tokenBucket(rpm, t)
                 b1  == Refill(b0, t)
             IN  IF b1.tokens > Float(1)
                 THEN [ok |-> TRUE,
                       buckets |-> MapPut(bk, key, [b1 EXCEPT !.tokens = @ - Float(1)])]
                 ELSE [ok |-> FALSE, buckets |-> MapPut(bk, key, b1)]

\* RateLimiter.allow(ip, route) at time t on the bucket map bk:
\* the value returned and the bucket map it leaves
allow(bk, ip, route, t) ==
    LET rpm == RouteRpm(route)
    IN  IF rpm <= 0
        THEN [ok |-> TRUE, buckets |-> bk]
        ELSE LET key == RLKey(ip, route)
                 b0  == IF key \in DOMAIN bk THEN bk[key] ELSE tokenBucket(rpm, t)
                 b1  == Refill(b0, t)
             IN  IF b1.tokens >= Float(1)
                 THEN [ok |-> TRUE,
                       buckets |-> MapPut(bk, key, [b1 EXCEPT !.tokens = @ - Float(1)])]
                 ELSE [ok |-> FALSE, buckets |-> MapPut(bk, key, b1)]

\* ------------------------------------------------------------------------
\* Simple in-memory TTL cache
\* ------------------------------------------------------------------------
Seconds(n) == n * TicksPerSecond

Minutes(n) == n * SecondsPerMinute * TicksPerSecond

\* TTLs per route
routeTTL ==
    ( "/api/v1/ssl"          :> Minutes(5) ) @@
    ( "/api/v1/http3"        :> Minutes(2) ) @@
    ( "/api/v1/dns"          :> Minutes(2) ) @@
    ( "/api/v1/ip"           :> Minutes(1) ) @@
    ( "/api/v1/my-ip"        :> Seconds(30) ) @@
    ( "/api/v1/web-settings" :> Minutes(1) ) @@
    ( "/api/v1/email-config" :> Minutes(10) ) @@
    ( "/api/v1/blocklist"    :> Minutes(10) ) @@
    ( "/api/v1/robots-txt"   :> Minutes(10) ) @@
    ( "/api/v1/sitemap"      :> Minutes(10) ) @@
    ( "/api/v1/og-image"     :> Minutes(10) )

cacheItem(val, exp) == [value |-> val, expiry |-> exp]

\* the nil interface value Get returns with found = false
Nil == [nil |-> TRUE]

\* mutant: Get returns whatever is stored, expired or not
Get_noExpiry(it, key, t) ==
    IF key \notin DOMAIN it
    THEN [value |-> Nil, found |-> FALSE, items |-> it]
    ELSE [value |-> it[key].value, found |-> TRUE, items |-> it]

\* Cache.Get(key) at time t on the item map it, called on its own (no other
\* call between its read and its delete): the pair returned and the map left
Get(it, key, t) ==
    IF key \notin DOMAIN it
    THEN [value |-> Nil, found |-> FALSE, items |-> it]
    ELSE IF t > it[key].expiry
         THEN [value |-> Nil, found |-> FALSE, items |-> MapDel(it, key)]
         ELSE [value |-> it[key].value, found |-> TRUE, items |-> it]

\* Cache.Set(key, val, ttl) at time t: the map left
Set(it, key, val, ttl, t) == MapPut(it, key, cacheItem(val, t + ttl))

\* ------------------------------------------------------------------------
\* cacheKey
\* ------------------------------------------------------------------------
\* the sequences that enumerate the set S once each: the orders in which a
\* range loop may visit the keys of a Go map
RECURSIVE Orders(_)
Orders(S) ==
    IF S = {} THEN { <<>> }
    ELSE UNION { { <<x>> \o o : o \in Orders(S \ {x}) } : x \in S }

RECURSIVE JoinPairs(_, _)
JoinPairs(q, order) ==
    IF Len(order) = 0 THEN ""
    ELSE LET k == Head(order)
         IN  k \o "=" \o q[k] \o
             (IF Len(order) = 1 THEN "" ELSE "&" \o JoinPairs(q, Tail(order)))

\* cacheKey(route, q) when the range loop visits q's keys in the given order
cacheKey(route, q, order) ==
    IF Cardinality(DOMAIN q) > 0
    THEN route \o "?" \o JoinPairs(q, order)
    ELSE route

\* ------------------------------------------------------------------------
\* Strings that the code parses are sequences of tokens; " " is white space
\* ------------------------------------------------------------------------
RECURSIVE TrimLeft(_)
TrimLeft(s) == IF Len(s) > 0 /\ Head(s) = " " THEN TrimLeft(Tail(s)) ELSE s

RECURSIVE TrimRight(_)
TrimRight(s) ==
    IF Len(s) > 0 /\ s[Len(s)] = " " THEN TrimRight(SubSeq(s, 1, Len(s) - 1)) ELSE s

\* strings.TrimSpace
TrimSpace(s) == TrimRight(TrimLeft(s))

\* strings.HasPrefix
HasPrefix(s, p) == Len(s) >= Len(p) /\ SubSeq(s, 1, Len(p)) = p

\* strings.TrimPrefix
TrimPrefix(s, p) == IF HasPrefix(s, p) THEN SubSeq(s, Len(p) + 1, Len(s)) ELSE s

\* the tokens of s before the first separator: strings.Split(s, sep)[0]
RECURSIVE FirstField(_, _)
FirstField(s, sep) ==
    IF Len(s) = 0 \/ Head(s) = sep THEN <<>>
    ELSE <<Head(s)>> \o FirstField(Tail(s), sep)

\* strings.LastIndex(s, sep): the last position of sep in s, 0 when absent
RECURSIVE LastIndex(_, _)
LastIndex(s, sep) ==
    IF Len(s) = 0 THEN 0
    ELSE IF s[Len(s)] = sep THEN Len(s)
    ELSE LastIndex(SubSeq(s, 1, Len(s) - 1), sep)

\* the text of a token sequence
RECURSIVE Str(_)
Str(s) == IF Len(s) = 0 THEN "" ELSE Head(s) \o Str(Tail(s))

\* the texts net.ParseIP accepts
IPLiterals == {"10.0.0.1", "10.0.0.2", "10.9.9.9", "172.16.0.1", "8.8.8.8"}

ParseIP(text) == text \in IPLiterals

\* ------------------------------------------------------------------------
\* Environment
\* ------------------------------------------------------------------------
\* getenvDefault returns env var or default if unset
getenvDefault(e, key, def) ==
    LET v == TrimSpace(e[key]) IN IF v # <<>> THEN v ELSE def

\* ------------------------------------------------------------------------
\* Responses
\* ------------------------------------------------------------------------
\* an APIResponse sent as JSON with an HTTP status
APIResponse(status, success, data, error, message) ==
    [ status |-> status, body |-> "APIResponse", success |-> success,
      data |-> data, error |-> error, message |-> message ]

\* a response that is no APIResponse: an empty body, gin.H, plain text
Plain(status, body) ==
    [ status |-> status, body |-> body, success |-> FALSE,
      data |-> Nil, error |-> "", message |-> "" ]

StatusOK == 200

StatusNoContent == 204

StatusBadRequest == 400

StatusForbidden == 403

StatusNotFound == 404

StatusTooManyRequests == 429

StatusInternalServerError == 500

\* ------------------------------------------------------------------------
\* getRealClientIP
\* ------------------------------------------------------------------------
\* mutant: the last hop of X-Forwarded-For is taken
getRealClientIP_lastHop(req) ==
    LET hop  == SubSeq(req.xForwardedFor, LastIndex(req.xForwardedFor, ",") + 1,
                       Len(req.xForwardedFor))
        xff  == Str(TrimSpace(hop))
        real == Str(TrimSpace(req.xRealIP))
        cf   == Str(TrimSpace(req.cfConnectingIP))
        idx  == LastIndex(req.remoteAddr, ":")
    IN  IF req.xForwardedFor # <<>> /\ xff # "" /\ ParseIP(xff) THEN xff
        ELSE IF req.xRealIP # <<>> /\ real # "" /\ ParseIP(real) THEN real
        ELSE IF req.cfConnectingIP # <<>> /\ cf # "" /\ ParseIP(cf) THEN cf
        ELSE IF req.remoteAddr # <<>>
             THEN IF idx # 0 THEN Str(SubSeq(req.remoteAddr, 1, idx - 1))
                  ELSE Str(req.remoteAddr)
        ELSE ""

\* Priority: X-Forwarded-For (first IP) > X-Real-IP > CF-Connecting-IP > RemoteAddr
getRealClientIP(req) ==
    LET xff  == Str(TrimSpace(FirstField(req.xForwardedFor, ",")))
        real == Str(TrimSpace(req.xRealIP))
        cf   == Str(TrimSpace(req.cfConnectingIP))
        idx  == LastIndex(req.remoteAddr, ":")
    IN  IF req.xForwardedFor # <<>> /\ xff # "" /\ ParseIP(xff) THEN xff
        ELSE IF req.xRealIP # <<>> /\ real # "" /\ ParseIP(real) THEN real
        ELSE IF req.cfConnectingIP # <<>> /\ cf # "" /\ ParseIP(cf) THEN cf
        ELSE IF req.remoteAddr # <<>>
             THEN IF idx # 0 THEN Str(SubSeq(req.remoteAddr, 1, idx - 1))
                  ELSE Str(req.remoteAddr)
        ELSE ""

\* ------------------------------------------------------------------------
\* API secret authentication middleware (main)
\* ------------------------------------------------------------------------
Abort(resp) == [next |-> FALSE, resp |-> resp]

PassOn == [next |-> TRUE, resp |-> Plain(0, "")]

\* the secret a request provides: X-API-Secret, else the Bearer token
ProvidedSecret(req) ==
    IF req.xAPISecret # <<>> THEN req.xAPISecret
    ELSE IF HasPrefix(req.authorization, <<"Bearer ">>)
         THEN TrimPrefix(req.authorization, <<"Bearer ">>)
         ELSE <<>>

\* mutant: the X-Internal-Proxy header is not required
AuthMiddleware_noProxyCheck(e, req) ==
    LET isDev     == getenvDefault(e, "GIN_MODE", <<"release">>) = <<"debug">>
        apiSecret == TrimSpace(getenvDefault(e, "API_SECRET_KEY", <<>>))
    IN  IF req.path = "/metrics" THEN PassOn
        ELSE IF isDev THEN PassOn
        ELSE IF apiSecret = <<>>
             THEN Abort(APIResponse(StatusInternalServerError, FALSE, Nil,
                                    "API secret key not configured", ""))
        ELSE IF ProvidedSecret(req) # apiSecret
             THEN Abort(APIResponse(StatusForbidden, FALSE, Nil,
                                    "Invalid or missing API secret key", ""))
        ELSE IF req.method = "OPTIONS" THEN Abort(Plain(StatusNoContent, ""))
        ELSE PassOn

\* the first middleware of the engine: whether the chain goes on (c.Next())
\* or is aborted, and with which response
AuthMiddleware(e, req) ==
    LET isDev     == getenvDefault(e, "GIN_MODE", <<"release">>) = <<"debug">>
        apiSecret == TrimSpace(getenvDefault(e, "API_SECRET_KEY", <<>>))
    IN  IF req.path = "/metrics" THEN PassOn
        ELSE IF isDev THEN PassOn
        ELSE IF apiSecret = <<>>
             THEN Abort(APIResponse(StatusInternalServerError, FALSE, Nil,
                                    "API secret key not configured", ""))
        ELSE IF req.xInternalProxy # <<"true">>
             THEN Abort(APIResponse(StatusForbidden, FALSE, Nil,
                     "Direct API access not allowed. Requests must go through the application proxy.",
                     ""))
        ELSE IF ProvidedSecret(req) # apiSecret
             THEN Abort(APIResponse(StatusForbidden, FALSE, Nil,
                                    "Invalid or missing API secret key", ""))
        ELSE IF req.method = "OPTIONS" THEN Abort(Plain(StatusNoContent, ""))
        ELSE PassOn

\* ------------------------------------------------------------------------
\* RateLimiter.Middleware
\* ------------------------------------------------------------------------
\* mutant: a rejected request is answered 429 but the chain goes on
Middleware_noAbort(bk, req, t) ==
    LET r == allow(bk, getRealClientIP(req), req.path, t)
    IN  [ next |-> TRUE, ok |-> r.ok, buckets |-> r.buckets,
          resp |-> APIResponse(StatusTooManyRequests, FALSE, Nil, "Too many requests", "") ]

\* the middleware of the /api/v1 group; c.FullPath() of a matched route
\* without parameters is the request path
Middleware(bk, req, t) ==
    LET r == allow(bk, getRealClientIP(req), req.path, t)
    IN  [ next |-> r.ok, ok |-> r.ok, buckets |-> r.buckets,
          resp |-> APIResponse(StatusTooManyRequests, FALSE, Nil, "Too many requests", "") ]

\* ------------------------------------------------------------------------
\* What the network does during a checker call
\* ------------------------------------------------------------------------
\* the lookups of the resolver: net.LookupIP, LookupCNAME, LookupMX,
\* LookupTXT, LookupNS
LookupKinds == {"ip", "cname", "mx", "txt", "ns"}

\* a header a well configured site sends
FullHSTS ==
    << "max-age=", "3", "1", "5", "3", "6", "0", "0", "0", "; ", "includeSubDomains",
       "; ", "preload" >>

\* a DMARC record as the resolver returns it
RejectRecord == <<"v=DMARC1", "; ", "p=reject", "; ", "rua=mailto:d@a.example">>

\* DNS servers to check for blocklisting
blocklistDNSServers ==
    << [Name |-> "AdGuard",                IP |-> "176.103.130.130"],
       [Name |-> "AdGuard Family",         IP |-> "176.103.130.132"],
       [Name |-> "CleanBrowsing Adult",    IP |-> "185.228.168.10"],
       [Name |-> "CleanBrowsing Family",   IP |-> "185.228.168.168"],
       [Name |-> "CleanBrowsing Security", IP |-> "185.228.168.9"],
       [Name |-> "CloudFlare",             IP |-> "1.1.1.1"],
       [Name |-> "CloudFlare Family",      IP |-> "1.1.1.3"],
       [Name |-> "Comodo Secure",          IP |-> "8.26.56.26"],
       [Name |-> "Google DNS",             IP |-> "8.8.8.8"],
       [Name |-> "Neustar Family",         IP |-> "156.154.70.3"],
       [Name |-> "Neustar Protection",     IP |-> "156.154.70.2"],
       [Name |-> "Norton Family",          IP |-> "199.85.126.20"],
       [Name |-> "OpenDNS",                IP |-> "208.67.222.222"],
       [Name |-> "OpenDNS Family",         IP |-> "208.67.222.123"],
       [Name |-> "Quad9",                  IP |-> "9.9.9.9"],
       [Name |-> "Yandex Family",          IP |-> "77.88.8.7"],
       [Name |-> "Yandex Safe",            IP |-> "77.88.8.88"] >>

\* Known block IPs that DNS servers return when blocking domains
knownBlockIPs ==
    << "146.112.61.106", "185.228.168.10", "8.26.56.26", "208.69.38.170", "208.69.39.170",
       "208.67.222.222", "208.67.222.123", "199.85.126.10", "199.85.126.20",
       "156.154.70.22", "77.88.8.7" >>

\* the elements of a sequence
Range(s) == {s[i] : i \in 1..Len(s)}

\* a child element of a sitemap document: <url> or <sitemap> with its <loc>,
\* <lastmod> and <priority>, "" when the element is absent
Entry(tag, i) ==
    [ tag      |-> tag,
      loc      |-> "https://a.example/p" \o ToString(i),
      lastmod  |-> IF i % 2 = 1 THEN "2024-01-1" \o ToString(i % 10) ELSE "",
      priority |-> "" ]

\* an XML document: whether it is well formed, the name of its root element
\* and the children of the root
Document(wellformed, root, tag, n) ==
    [wellformed |-> wellformed, root |-> root, children |-> [i \in 1..n |-> Entry(tag, i)]]

\* <urlset> with n <url> entries
URLSet(n) == Document(TRUE, "urlset", "url", n)

\* an empty body
NoDocument == Document(FALSE, "", "", 0)

\* every operation succeeds: the site answers over TLS and HTTP/3, every
\* lookup resolves, no blocklist server blocks the domain
NetworkUp ==
    [ tls      |-> TRUE,                  \* tls.Dial succeeds
      http     |-> TRUE,                  \* an HTTP request gets a response
      cert     |-> TRUE,                  \* the response carries peer certificates
      status   |-> StatusOK,              \* resp.StatusCode
      hsts     |-> FullHSTS,              \* the Strict-Transport-Security header
      h3       |-> "HTTP/3.0",            \* resp.Proto of http3Client.Do, "" when it fails
      quic     |-> TRUE,                  \* quic.DialAddr succeeds
      resolves |-> LookupKinds,           \* the lookups that return without error
      addrs    |-> <<"2001:db8::1", "192.0.2.1", "192.0.2.2">>,
      cname    |-> <<>>,                  \* the canonical name when it is not the name itself
      mx       |-> <<[Host |-> "mx.a.example.", Pref |-> 10]>>,
      txt      |-> <<<<"v=spf1", " ", "-all">>>>,
      ns       |-> <<"ns1.a.example.", "ns2.a.example.">>,
      dmarc    |-> [ok |-> TRUE, txt |-> <<RejectRecord>>],  \* LookupTXT of _dmarc.<domain>
      dkim     |-> <<"default">>,         \* the selectors that have a DKIM record
      bimi     |-> [ok |-> TRUE, txt |-> <<>>],            \* LookupTXT of default._bimi.<domain>
      tcp      |-> TRUE,                  \* net.Dial succeeds
      body     |-> "ok",                  \* the body of an HTTP response: "ok", or "unreadable"
      answers  |-> <<>>,                  \* what a blocklist server answers when not addrs
      get      |-> [i \in 1..8 |-> StatusOK],  \* the status of each sitemap candidate, 0: no response
      doc      |-> URLSet(3),             \* the document served as sitemap
      robots   |-> << <<"User-agent", ":", " ", "*">>,    \* the lines of robots.txt
                      <<"Disallow", ":", " ", "/private">> >> ]

\* every operation fails: no route to any host, no resolver
NetworkDown ==
    [ tls      |-> FALSE,
      http     |-> FALSE,
      cert     |-> FALSE,
      status   |-> 0,
      hsts     |-> <<>>,
      h3       |-> "",
      quic     |-> FALSE,
      resolves |-> {},
      addrs    |-> <<>>,
      cname    |-> <<>>,
      mx       |-> <<>>,
      txt      |-> <<>>,
      ns       |-> <<>>,
      dmarc    |-> [ok |-> FALSE, txt |-> <<>>],
      dkim     |-> <<>>,
      bimi     |-> [ok |-> FALSE, txt |-> <<>>],
      tcp      |-> FALSE,
      body     |-> "unreadable",
      answers  |-> [ip \in {server.IP : server \in Range(blocklistDNSServers)} |->
                      [err |-> TRUE, addrs |-> <<>>]],
      get      |-> [i \in 1..8 |-> 0],
      doc      |-> NoDocument,
      robots   |-> <<>> ]

\* ------------------------------------------------------------------------
\* Parsing done by the checkers
\* ------------------------------------------------------------------------
\* the clean domain of the checkers: the scheme and everything from the
\* first "/" on removed
CleanDomain(domain) ==
    FirstField(TrimPrefix(TrimPrefix(domain, <<"https://">>), <<"http://">>), "/")

\* "Ensure domain has protocol"
WithProtocol(domain) ==
    IF ~HasPrefix(domain, <<"https://">>) /\ ~HasPrefix(domain, <<"http://">>)
    THEN <<"https://">> \o domain ELSE domain

\* url.Parse, as http.NewRequest calls it, accepts the text: no white space
\* in it
ParsesAsURL(url) == \A i \in 1..Len(url) : url[i] # " "

\* isIPAddress checks if a string is a valid IP address
isIPAddress(input) == ParseIP(Str(input))

\* ip.To4() != nil
To4(ip) == ip \in IPLiterals \cup {"192.0.2.1", "192.0.2.2"}

Digits == {"0", "1", "2", "3", "4", "5", "6", "7", "8", "9"}

DigitValue(d) ==
    CASE d = "0" -> 0 [] d = "1" -> 1 [] d = "2" -> 2 [] d = "3" -> 3 [] d = "4" -> 4
      [] d = "5" -> 5 [] d = "6" -> 6 [] d = "7" -> 7 [] d = "8" -> 8 [] d = "9" -> 9

\* the longest run of digits s starts with: (\d+)
RECURSIVE DigitRun(_)
DigitRun(s) ==
    IF Len(s) = 0 \/ Head(s) \notin Digits THEN <<>>
    ELSE <<Head(s)>> \o DigitRun(Tail(s))

\* the first position from i on where max-age= is followed by a digit, 0
\* when there is none: regexp `max-age=(\d+)`, leftmost match
RECURSIVE maxAgeMatch(_, _)
maxAgeMatch(header, i) ==
    IF i >= Len(header) THEN 0
    ELSE IF header[i] = "max-age=" /\ header[i + 1] \in Digits THEN i
    ELSE maxAgeMatch(header, i + 1)

\* a number without its leading zeros; an int is written as its decimal
\* digits, so that no value is out of the reach of the model
RECURSIVE Canonical(_)
Canonical(ds) ==
    IF Len(ds) > 1 /\ Head(ds) = "0" THEN Canonical(Tail(ds)) ELSE ds

\* math.MaxInt64, the largest int
MaxInt == << "9", "2", "2", "3", "3", "7", "2", "0", "3", "6", "8", "5", "4", "7", "7",
             "5", "8", "0", "7" >>

\* a <= b for two numbers of the same length
RECURSIVE DigitsLeq(_, _)
DigitsLeq(a, b) ==
    IF Len(a) = 0 THEN TRUE
    ELSE IF DigitValue(Head(a)) < DigitValue(Head(b)) THEN TRUE
    ELSE IF DigitValue(Head(a)) > DigitValue(Head(b)) THEN FALSE
    ELSE DigitsLeq(Tail(a), Tail(b))

\* strconv.Atoi of a run of digits: the value, or an error when it is out
\* of the range of int
Atoi(ds) ==
    LET n == Canonical(ds)
    IN  IF Len(n) < Len(MaxInt) \/ (Len(n) = Len(MaxInt) /\ DigitsLeq(n, MaxInt))
        THEN [value |-> n, err |-> FALSE]
        ELSE [value |-> <<"0">>, err |-> TRUE]

\* strings.ToLower of the words the checkers look for
ToLower(tok) ==
    CASE tok = "includeSubDomains" -> "includesubdomains"
      [] tok = "IncludeSubdomains" -> "includesubdomains"
      [] tok = "INCLUDESUBDOMAINS" -> "includesubdomains"
      [] tok = "Preload"           -> "preload"
      [] tok = "PRELOAD"           -> "preload"
      [] tok = "Max-Age="          -> "max-age="
      [] tok = "V=SPF1"            -> "v=spf1"
      [] tok = "V=DMARC1"          -> "v=dmarc1"
      [] tok = "v=DMARC1"          -> "v=dmarc1"
      [] tok = "v=Dmarc1"          -> "v=dmarc1"
      [] tok = "User-agent"        -> "user-agent"
      [] tok = "USER-AGENT"        -> "user-agent"
      [] tok = "Disallow"          -> "disallow"
      [] tok = "Allow"             -> "allow"
      [] tok = "Crawl-delay"       -> "crawl-delay"
      [] tok = "Sitemap"           -> "sitemap"
      [] OTHER                     -> tok

\* a word is among the tokens of s
HasToken(s, word) == \E i \in 1..Len(s) : s[i] = word

\* the tokens of s in lower case
LowerCase(s) == [i \in 1..Len(s) |-> ToLower(s[i])]

\* HSTSInfo{}: the zero value
HSTSInfo ==
    [ enabled |-> FALSE, max_age |-> <<"0">>, include_subdomains |-> FALSE,
      preload |-> FALSE, directive |-> "", details |-> "" ]

\* mutant: includeSubDomains and preload are looked for as they are written
parseHSTSHeader_caseSensitive(header) ==
    IF header = <<>>
    THEN [HSTSInfo EXCEPT !.details = "HSTS header not present"]
    ELSE LET at     == maxAgeMatch(header, 1)
             maxAge == IF at = 0 THEN [value |-> <<"0">>, err |-> FALSE]
                       ELSE Atoi(DigitRun(SubSeq(header, at + 1, Len(header))))
             sub    == HasToken(header, "includesubdomains")
             pre    == HasToken(header, "preload")
         IN  [ enabled |-> TRUE, max_age |-> maxAge.value, include_subdomains |-> sub,
               preload |-> pre, directive |-> Str(header),
               details |-> "Max-Age: " \o Str(maxAge.value) \o " seconds"
                           \o (IF sub THEN ", Includes SubDomains: Yes"
                                      ELSE ", Includes SubDomains: No")
                           \o (IF pre THEN ", Preload: Yes" ELSE "") ]

\* parseHSTSHeader parses the Strict-Transport-Security header
parseHSTSHeader(header) ==
    IF header = <<>>
    THEN [HSTSInfo EXCEPT !.details = "HSTS header not present"]
    ELSE LET at     == maxAgeMatch(header, 1)
             maxAge == IF at = 0 THEN [value |-> <<"0">>, err |-> FALSE]
                       ELSE Atoi(DigitRun(SubSeq(header, at + 1, Len(header))))
             sub    == HasToken(LowerCase(header), "includesubdomains")
             pre    == HasToken(LowerCase(header), "preload")
         IN  [ enabled |-> TRUE, max_age |-> maxAge.value, include_subdomains |-> sub,
               preload |-> pre, directive |-> Str(header),
               details |-> "Max-Age: " \o Str(maxAge.value) \o " seconds"
                           \o (IF sub THEN ", Includes SubDomains: Yes"
                                      ELSE ", Includes SubDomains: No")
                           \o (IF pre THEN ", Preload: Yes" ELSE "") ]

\* resp.Header joined: the content type, and the HSTS header if one is sent
ResponseHeaders(net) ==
    IF net.hsts = <<>> THEN "Content-Type" :> "text/html"
    ELSE ("Content-Type" :> "text/html") @@ ("Strict-Transport-Security" :> Str(net.hsts))

\* ------------------------------------------------------------------------
\* NetChecker: the checks.  A report has the JSON names of its fields; a
\* field the code leaves at its zero value is "", 0, FALSE or <<>>.
\* ------------------------------------------------------------------------
\* CheckSSL checks SSL certificate information
CheckSSL(domain, net) ==
    LET info == [domain |-> Str(domain), valid |-> FALSE, issuer |-> "", error |-> ""]
    IN  IF ~net.tls
        THEN [info EXCEPT !.error = "Failed to connect: dial tcp: i/o timeout"]
        ELSE [info EXCEPT !.valid = TRUE, !.issuer = "CN=Example CA"]

\* CheckHTTP3 checks HTTP/3 support
CheckHTTP3(domain, net) ==
    LET info == [ domain |-> Str(domain), supported |-> FALSE, protocol |-> "",
                  status |-> 0, details |-> "", error |-> "" ]
    IN  IF ~ParsesAsURL(WithProtocol(domain))
        THEN [info EXCEPT !.error = "Failed to create request: invalid URL"]
        ELSE IF net.h3 = ""
        THEN IF net.quic
             THEN [info EXCEPT !.supported = TRUE, !.protocol = "HTTP/3",
                               !.details = "QUIC connection successful"]
             ELSE [info EXCEPT !.details = "HTTP/3 not supported: timeout: no recent network activity"]
        ELSE IF net.h3 = "HTTP/3.0"
        THEN [info EXCEPT !.status = net.status, !.supported = TRUE, !.protocol = net.h3,
                          !.details = "HTTP/3 supported! Status: " \o ToString(net.status)]
        ELSE [info EXCEPT !.status = net.status, !.protocol = net.h3,
                          !.details = "HTTP/3 not supported. Protocol: " \o net.h3]

\* mutant: the first lookup that fails ends the check
CheckDNS_abort(domain, net) ==
    LET cleanDomain == CleanDomain(domain)
        ok(kinds)   == kinds \subseteq net.resolves
        cnames      == IF net.cname = <<>> THEN cleanDomain \o <<".">> ELSE net.cname
        NotV4(ip)   == ~To4(ip)
    IN  [ domain |-> Str(domain),
          ipv4   |-> IF ok({"ip"}) THEN SelectSeq(net.addrs, To4) ELSE <<>>,
          ipv6   |-> IF ok({"ip"}) THEN SelectSeq(net.addrs, NotV4) ELSE <<>>,
          cname  |-> IF ok({"ip", "cname"}) /\ cnames # cleanDomain \o <<".">>
                     THEN <<Str(cnames)>> ELSE <<>>,
          mx     |-> IF ok({"ip", "cname", "mx"})
                     THEN [ i \in 1..Len(net.mx) |->
                              net.mx[i].Host \o " (priority: " \o ToString(net.mx[i].Pref) \o ")" ]
                     ELSE <<>>,
          txt    |-> IF ok({"ip", "cname", "mx", "txt"})
                     THEN [i \in 1..Len(net.txt) |-> Str(net.txt[i])] ELSE <<>>,
          ns     |-> IF ok({"ip", "cname", "mx", "txt", "ns"}) THEN net.ns ELSE <<>>,
          error  |-> "" ]

\* CheckDNS checks DNS resolution information: five lookups, each used when
\* it returned no error; no path sets info.Error
CheckDNS(domain, net) ==
    LET cleanDomain == CleanDomain(domain)
        ok(kinds)   == kinds \subseteq net.resolves
        cnames      == IF net.cname = <<>> THEN cleanDomain \o <<".">> ELSE net.cname
        NotV4(ip)   == ~To4(ip)
    IN  [ domain |-> Str(domain),
          ipv4   |-> IF ok({"ip"}) THEN SelectSeq(net.addrs, To4) ELSE <<>>,
          ipv6   |-> IF ok({"ip"}) THEN SelectSeq(net.addrs, NotV4) ELSE <<>>,
          cname  |-> IF ok({"cname"}) /\ cnames # cleanDomain \o <<".">>
                     THEN <<Str(cnames)>> ELSE <<>>,
          mx     |-> IF ok({"mx"})
                     THEN [ i \in 1..Len(net.mx) |->
                              net.mx[i].Host \o " (priority: " \o ToString(net.mx[i].Pref) \o ")" ]
                     ELSE <<>>,
          txt    |-> IF ok({"txt"})
                     THEN [i \in 1..Len(net.txt) |-> Str(net.txt[i])] ELSE <<>>,
          ns     |-> IF ok({"ns"}) THEN net.ns ELSE <<>>,
          error  |-> "" ]

\* mutant: the last of the resolved addresses is reported
CheckIP_lastResolved(input, net) ==
    LET cleanInput == CleanDomain(input)
        info == [ input |-> Str(input), is_domain |-> FALSE, resolved_ips |-> <<>>,
                  ip |-> "", country |-> "", error |-> "" ]
    IN  IF isIPAddress(cleanInput)
        THEN [info EXCEPT !.ip = Str(cleanInput), !.country = "Unknown"]
        ELSE IF "ip" \notin net.resolves
        THEN [info EXCEPT !.is_domain = TRUE,
                          !.error = "Failed to resolve domain: no such host"]
        ELSE LET resolved == SelectSeq(net.addrs, To4)
             IN  IF Len(resolved) > 0
                 THEN [info EXCEPT !.is_domain = TRUE, !.resolved_ips = resolved,
                                   !.ip = resolved[Len(resolved)], !.country = "Unknown"]
                 ELSE [info EXCEPT !.is_domain = TRUE,
                                   !.error = "No IP addresses found for domain"]

\* CheckIP checks IP address information (accepts both IP addresses and
\* domain names); the result of net.Dial is not used
CheckIP(input, net) ==
    LET cleanInput == CleanDomain(input)
        info == [ input |-> Str(input), is_domain |-> FALSE, resolved_ips |-> <<>>,
                  ip |-> "", country |-> "", error |-> "" ]
    IN  IF isIPAddress(cleanInput)
        THEN [info EXCEPT !.ip = Str(cleanInput), !.country = "Unknown"]
        ELSE IF "ip" \notin net.resolves
        THEN [info EXCEPT !.is_domain = TRUE,
                          !.error = "Failed to resolve domain: no such host"]
        ELSE LET resolved == SelectSeq(net.addrs, To4)
             IN  IF Len(resolved) > 0
                 THEN [info EXCEPT !.is_domain = TRUE, !.resolved_ips = resolved,
                                   !.ip = resolved[1], !.country = "Unknown"]
                 ELSE [info EXCEPT !.is_domain = TRUE,
                                   !.error = "No IP addresses found for domain"]

\* CheckWebSettings checks web server settings and headers
CheckWebSettings(domain, net) ==
    LET info == [ domain |-> Str(domain), status_code |-> 0, headers |-> EmptyMap,
                  hsts |-> HSTSInfo, error |-> "" ]
    IN  IF ~ParsesAsURL(WithProtocol(domain)) \/ ~net.http
        THEN [info EXCEPT !.error = "Failed to connect: Get: dial tcp: i/o timeout"]
        ELSE [info EXCEPT !.status_code = net.status,
                          !.hsts = parseHSTSHeader(net.hsts),
                          !.headers = ResponseHeaders(net)]

\* the first record of txtRecords that starts with the version tag, in any
\* case; <<>> when there is none
RECURSIVE FirstRecord(_, _)
FirstRecord(txtRecords, version) ==
    IF Len(txtRecords) = 0 THEN <<>>
    ELSE IF HasPrefix(LowerCase(Head(txtRecords)), <<version>>) THEN Head(txtRecords)
    ELSE FirstRecord(Tail(txtRecords), version)

\* CheckSPF checks SPF (Sender Policy Framework) record
CheckSPF(domain, net) ==
    LET info == [configured |-> FALSE, record |-> "", valid |-> FALSE, details |-> "", error |-> ""]
    IN  IF "txt" \notin net.resolves
        THEN [info EXCEPT !.error = "Failed to lookup TXT records: no such host"]
        ELSE LET txt == FirstRecord(net.txt, "v=spf1")
             IN  IF txt # <<>>
                 THEN [info EXCEPT !.configured = TRUE, !.record = Str(txt), !.valid = TRUE,
                                   !.details = "SPF record found and configured"]
                 ELSE [info EXCEPT !.details = "No SPF record found"]

\* CheckDKIM checks DKIM (DomainKeys Identified Mail) records: a selector
\* whose lookup fails is a selector without a record
CheckDKIM(domain, net) ==
    LET info == [configured |-> FALSE, selectors |-> <<>>, valid |-> FALSE, details |-> ""]
    IN  IF Len(net.dkim) > 0
        THEN [info EXCEPT !.configured = TRUE, !.selectors = net.dkim, !.valid = TRUE,
                          !.details = "DKIM records found for selectors"]
        ELSE [info EXCEPT !.details = "No DKIM records found for common selectors"]

\* CheckDMARC checks DMARC (Domain-based Message Authentication) record.
\* strings.Contains finds p=none wherever it stands in the record, the end
\* of sp=none included.
CheckDMARC(domain, net) ==
    LET info == [ configured |-> FALSE, record |-> "", policy |-> "", valid |-> FALSE,
                  details |-> "", error |-> "" ]
    IN  IF ~net.dmarc.ok
        THEN [info EXCEPT !.error = "Failed to lookup DMARC record: no such host",
                          !.details = "No DMARC record found"]
        ELSE LET txt == FirstRecord(net.dmarc.txt, "v=dmarc1")
                 policy == IF HasToken(txt, "p=none") THEN "none"
                           ELSE IF HasToken(txt, "p=quarantine") THEN "quarantine"
                           ELSE IF HasToken(txt, "p=reject") THEN "reject"
                           ELSE ""
             IN  IF txt # <<>>
                 THEN [info EXCEPT !.configured = TRUE, !.record = Str(txt), !.valid = TRUE,
                                   !.policy = policy,
                                   !.details = "DMARC record found with policy: " \o policy]
                 ELSE [info EXCEPT !.details = "No DMARC record found"]

\* CheckBIMI checks BIMI (Brand Indicators for Message Identification) record
CheckBIMI(domain, net) ==
    LET info == [configured |-> FALSE, record |-> "", valid |-> FALSE, details |-> ""]
    IN  IF ~net.bimi.ok
        THEN [info EXCEPT !.details = "No BIMI record found"]
        ELSE LET txt == FirstRecord(net.bimi.txt, "v=bimi1")
             IN  IF txt # <<>>
                 THEN [info EXCEPT !.configured = TRUE, !.record = Str(txt), !.valid = TRUE,
                                   !.details = "BIMI record found"]
                 ELSE [info EXCEPT !.details = "No BIMI record found"]

\* CheckEmailConfig checks email configuration (SPF, DKIM, DMARC, BIMI); no
\* path sets info.Error
CheckEmailConfig(domain, net) ==
    LET cleanDomain == CleanDomain(domain)
    IN  [ domain |-> Str(domain),
          spf    |-> CheckSPF(cleanDomain, net),
          dkim   |-> CheckDKIM(cleanDomain, net),
          dmarc  |-> CheckDMARC(cleanDomain, net),
          bimi   |-> CheckBIMI(cleanDomain, net),
          error  |-> "" ]

\* mutant: a failed request leaves the SSL report without the error
CheckSSLAndWebSettings_sslSilent(domain, net) ==
    LET fullURL     == WithProtocol(domain)
        cleanDomain == CleanDomain(fullURL)
        SSL         == [domain |-> "", valid |-> FALSE, issuer |-> "", error |-> ""]
        WebSettings == [ domain |-> "", status_code |-> 0, headers |-> EmptyMap,
                         hsts |-> HSTSInfo, error |-> "" ]
    IN  IF ~ParsesAsURL(fullURL)
        THEN [ SSL         |-> SSL,
               WebSettings |-> [WebSettings EXCEPT !.error = "Failed to create request: invalid URL"] ]
        ELSE IF ~net.http
        THEN [ SSL         |-> [SSL EXCEPT !.domain = Str(cleanDomain)],
               WebSettings |-> [WebSettings EXCEPT !.domain = Str(cleanDomain),
                                  !.error = "Failed to connect: Head: dial tcp: i/o timeout"] ]
        ELSE [ SSL         |-> IF net.cert
                               THEN [SSL EXCEPT !.domain = Str(cleanDomain), !.valid = TRUE,
                                                !.issuer = "CN=Example CA"]
                               ELSE [SSL EXCEPT !.domain = Str(cleanDomain),
                                                !.error = "No TLS certificate found"],
               WebSettings |-> [WebSettings EXCEPT
                                  !.domain = Str(cleanDomain),
                                  !.status_code = net.status,
                                  !.hsts = parseHSTSHeader(net.hsts),
                                  !.headers = ResponseHeaders(net)] ]

\* CheckSSLAndWebSettings performs both SSL and WebSettings checks in a
\* single request.  var result CombinedResult: both reports start at their
\* zero value, the Domain fields included.
CheckSSLAndWebSettings(domain, net) ==
    LET fullURL     == WithProtocol(domain)
        cleanDomain == CleanDomain(fullURL)
        SSL         == [domain |-> "", valid |-> FALSE, issuer |-> "", error |-> ""]
        WebSettings == [ domain |-> "", status_code |-> 0, headers |-> EmptyMap,
                         hsts |-> HSTSInfo, error |-> "" ]
    IN  IF ~ParsesAsURL(fullURL)
        THEN [ SSL         |-> [SSL EXCEPT !.error = "Failed to create request: invalid URL"],
               WebSettings |-> [WebSettings EXCEPT !.error = "Failed to create request: invalid URL"] ]
        ELSE IF ~net.http
        THEN [ SSL         |-> [SSL EXCEPT !.domain = Str(cleanDomain),
                                  !.error = "Failed to connect: Head: dial tcp: i/o timeout"],
               WebSettings |-> [WebSettings EXCEPT !.domain = Str(cleanDomain),
                                  !.error = "Failed to connect: Head: dial tcp: i/o timeout"] ]
        ELSE [ SSL         |-> IF net.cert
                               THEN [SSL EXCEPT !.domain = Str(cleanDomain), !.valid = TRUE,
                                                !.issuer = "CN=Example CA"]
                               ELSE [SSL EXCEPT !.domain = Str(cleanDomain),
                                                !.error = "No TLS certificate found"],
               WebSettings |-> [WebSettings EXCEPT
                                  !.domain = Str(cleanDomain),
                                  !.status_code = net.status,
                                  !.hsts = parseHSTSHeader(net.hsts),
                                  !.headers = ResponseHeaders(net)] ]

\* resolver.LookupIPAddr through the server: an error, or the addresses the
\* server returns
LookupIPAddr(serverIP, net) ==
    IF serverIP \in DOMAIN net.answers THEN net.answers[serverIP]
    ELSE [err |-> FALSE, addrs |-> net.addrs]

\* mutant: a server that does not answer does not block
isDomainBlockedByServer_failOpen(domain, serverIP, net) ==
    LET r == LookupIPAddr(serverIP, net)
    IN  IF r.err THEN FALSE
        ELSE \E i \in 1..Len(r.addrs) : r.addrs[i] \in Range(knownBlockIPs)

\* isDomainBlockedByServer checks if a domain is blocked by a specific DNS
\* server: a failed resolution counts as blocked
isDomainBlockedByServer(domain, serverIP, net) ==
    LET r == LookupIPAddr(serverIP, net)
    IN  IF r.err THEN TRUE
        ELSE \E i \in 1..Len(r.addrs) : r.addrs[i] \in Range(knownBlockIPs)

\* CheckBlocklist checks if a domain is blocked by various DNS servers; no
\* path sets info.Error
CheckBlocklist(domain, net) ==
    LET cleanDomain == CleanDomain(domain)
    IN  [ domain  |-> Str(domain),
          results |-> [ i \in 1..Len(blocklistDNSServers) |->
                          [ server     |-> blocklistDNSServers[i].Name,
                            server_ip  |-> blocklistDNSServers[i].IP,
                            is_blocked |-> isDomainBlockedByServer(cleanDomain,
                                               blocklistDNSServers[i].IP, net) ] ],
          error   |-> "" ]

\* strings.SplitN(line, ":", 2): the text before the first ":" and the
\* text after it; one part only when the line has no ":"
SplitN2(line) ==
    LET first == FirstField(line, ":")
    IN  IF Len(first) = Len(line) THEN <<line>>
        ELSE <<first, SubSeq(line, Len(first) + 2, Len(line))>>

\* the field of a line of robots.txt, in lower case, "" for an empty line, a
\* comment and a line without ":"
RobotsField(line) ==
    LET trimmed == TrimSpace(line)
        parts   == SplitN2(trimmed)
    IN  IF trimmed = <<>> \/ HasPrefix(trimmed, <<"#">>) \/ Len(parts) # 2 THEN ""
        ELSE Str(TrimSpace(LowerCase(parts[1])))

\* the value of a line of robots.txt
RobotsValue(line) ==
    LET parts == SplitN2(TrimSpace(line))
    IN  IF Len(parts) # 2 THEN "" ELSE Str(TrimSpace(parts[2]))

\* mutant: the first crawl-delay of the file is kept
RobotsLine_firstDelay(st, line) ==
    LET field == RobotsField(line)
        value == RobotsValue(line)
        entry == st.currentUserAgent \o ": " \o value
    IN  CASE field = "user-agent" ->
                [st EXCEPT !.currentUserAgent = value,
                           !.info.user_agents = Append(@, value)]
          [] field = "disallow" /\ value # "" ->
                [st EXCEPT !.info.disallowed = Append(@, entry)]
          [] field = "allow" /\ value # "" ->
                [st EXCEPT !.info.allowed = Append(@, entry)]
          [] field = "sitemap" ->
                [st EXCEPT !.info.sitemaps = Append(@, value)]
          [] field = "crawl-delay" /\ value # "" /\ st.info.crawl_delay = "" ->
                [st EXCEPT !.info.crawl_delay = value]
          [] OTHER -> st

\* the body of the loop over info.Lines: the switch on the field of the line
RobotsLine(st, line) ==
    LET field == RobotsField(line)
        value == RobotsValue(line)
        entry == st.currentUserAgent \o ": " \o value
    IN  CASE field = "user-agent" ->
                [st EXCEPT !.currentUserAgent = value,
                           !.info.user_agents = Append(@, value)]
          [] field = "disallow" /\ value # "" ->
                [st EXCEPT !.info.disallowed = Append(@, entry)]
          [] field = "allow" /\ value # "" ->
                [st EXCEPT !.info.allowed = Append(@, entry)]
          [] field = "sitemap" ->
                [st EXCEPT !.info.sitemaps = Append(@, value)]
          [] field = "crawl-delay" /\ value # "" ->
                [st EXCEPT !.info.crawl_delay = value]
          [] OTHER -> st

\* for _, line := range info.Lines
RECURSIVE ParseRobotsTxt(_, _)
ParseRobotsTxt(st, lines) ==
    IF Len(lines) = 0 THEN st
    ELSE ParseRobotsTxt(RobotsLine(st, Head(lines)), Tail(lines))

\* RobotsTxtInfo{Domain: domain}
RobotsTxtInfo(domain) ==
    [ domain |-> Str(domain), exists |-> FALSE, status |-> "", user_agents |-> <<>>,
      disallowed |-> <<>>, allowed |-> <<>>, sitemaps |-> <<>>, crawl_delay |-> "",
      error |-> "" ]

\* CheckRobotsTxt checks robots.txt file for a domain: whatever the status
\* of the response, its body is parsed
CheckRobotsTxt(domain, net) ==
    LET cleanDomain == CleanDomain(domain)
        robotsURL   == <<"https://">> \o cleanDomain \o <<"/", "robots.txt">>
        info  == RobotsTxtInfo(domain)
        found == [info EXCEPT !.exists = TRUE, !.status = "HTTP " \o ToString(net.status)]
    IN  IF ~ParsesAsURL(robotsURL) \/ ~net.http
        THEN [info EXCEPT !.status = "Not Found",
                          !.error = "Failed to fetch robots.txt: dial tcp: i/o timeout"]
        ELSE IF net.body = "unreadable"
        THEN [found EXCEPT !.error = "Failed to read response: unexpected EOF"]
        ELSE ParseRobotsTxt([currentUserAgent |-> "*", info |-> found], net.robots).info

\* Common sitemap locations to try
sitemapPaths ==
    << <<"/", "sitemap.xml">>, <<"/", "sitemap_index.xml">>, <<"/", "sitemap-index.xml">>,
       <<"/", "sitemaps.xml">> >>

\* the URLs CheckSitemap requests, in the order of its loop: each path under
\* https, then under http
SitemapCandidates(cleanDomain) ==
    [ k \in 1..(2 * Len(sitemapPaths)) |->
        (IF k % 2 = 1 THEN <<"https://">> ELSE <<"http://">>)
            \o cleanDomain \o sitemapPaths[(k + 1) \div 2] ]

\* nc.httpClient.Get of the k-th candidate: the status of the response, 0
\* when there is none (err != nil)
SitemapGet(cleanDomain, k, net) ==
    IF ParsesAsURL(SitemapCandidates(cleanDomain)[k]) THEN net.get[k] ELSE 0

\* the loop over sitemapPaths: it breaks at the first candidate answered 200
\* and sets info.SitemapURL; otherwise resp and err are those of the last
\* request, whose body has been closed
FetchSitemap(cleanDomain, net) ==
    LET urls  == SitemapCandidates(cleanDomain)
        found == {k \in 1..Len(urls) : SitemapGet(cleanDomain, k, net) = StatusOK}
        last  == IF found = {} THEN Len(urls)
                 ELSE CHOOSE k \in found : \A j \in found : k <= j
    IN  [ sitemapURL |-> IF found = {} THEN <<>> ELSE urls[last],
          status     |-> SitemapGet(cleanDomain, last, net),
          closed     |-> found = {} ]

\* strconv.ParseFloat accepts the text of a <priority>
IsFloat(text) == text \in {"0.5", "1.0", "0"}

\* xml.Unmarshal into a struct with XMLName root and a slice field tagged
\* child: an error when the document is not well formed, when its root has
\* another name, or when a <priority> of a <url> is no number
Unmarshal(body, root, child) ==
    LET IsChild(c) == c.tag = child
        list  == SelectSeq(body.children, IsChild)
    IN  IF ~body.wellformed THEN [err |-> "XML syntax error", items |-> <<>>]
        ELSE IF body.root # root
        THEN [err |-> "expected element type <" \o root \o ">", items |-> <<>>]
        ELSE IF child = "url"
                /\ \E i \in 1..Len(list) : list[i].priority # "" /\ ~IsFloat(list[i].priority)
        THEN [err |-> "strconv.ParseFloat: invalid syntax", items |-> <<>>]
        ELSE [err |-> "", items |-> list]

\* the smaller of two numbers
Min(a, b) == IF a < b THEN a ELSE b

\* mutant: every URL of the sitemap is a sample
ParseSitemapBody_allSamples(info, body) ==
    LET sitemapIndex == Unmarshal(body, "sitemapindex", "sitemap")
        sitemap      == Unmarshal(body, "urlset", "url")
        maxSamples   == Len(sitemap.items)
        HasLastMod(u) == u.lastmod # ""
    IN  IF sitemapIndex.err = "" /\ Len(sitemapIndex.items) > 0
        THEN [info EXCEPT !.is_sitemap_index = TRUE,
                          !.url_count = Len(sitemapIndex.items),
                          !.sub_sitemaps = [i \in 1..Len(sitemapIndex.items) |->
                                               sitemapIndex.items[i].loc]]
        ELSE IF sitemap.err = "" /\ Len(sitemap.items) > 0
        THEN [info EXCEPT !.is_sitemap_index = FALSE,
                          !.url_count = Len(sitemap.items),
                          !.sample_urls = [i \in 1..maxSamples |-> sitemap.items[i].loc],
                          !.last_modified =
                              [i \in 1..Len(SelectSeq(SubSeq(sitemap.items, 1, maxSamples),
                                                      HasLastMod)) |->
                                 SelectSeq(SubSeq(sitemap.items, 1, maxSamples),
                                           HasLastMod)[i].lastmod]]
        ELSE [info EXCEPT !.error = "Sitemap found but could not parse XML structure"]

\* the body is parsed as a sitemap index first, then as a regular sitemap
\* of which the first 10 URLs are the samples
ParseSitemapBody(info, body) ==
    LET sitemapIndex == Unmarshal(body, "sitemapindex", "sitemap")
        sitemap      == Unmarshal(body, "urlset", "url")
        maxSamples   == Min(10, Len(sitemap.items))
        HasLastMod(u) == u.lastmod # ""
    IN  IF sitemapIndex.err = "" /\ Len(sitemapIndex.items) > 0
        THEN [info EXCEPT !.is_sitemap_index = TRUE,
                          !.url_count = Len(sitemapIndex.items),
                          !.sub_sitemaps = [i \in 1..Len(sitemapIndex.items) |->
                                               sitemapIndex.items[i].loc]]
        ELSE IF sitemap.err = "" /\ Len(sitemap.items) > 0
        THEN [info EXCEPT !.is_sitemap_index = FALSE,
                          !.url_count = Len(sitemap.items),
                          !.sample_urls = [i \in 1..maxSamples |-> sitemap.items[i].loc],
                          !.last_modified =
                              [i \in 1..Len(SelectSeq(SubSeq(sitemap.items, 1, maxSamples),
                                                      HasLastMod)) |->
                                 SelectSeq(SubSeq(sitemap.items, 1, maxSamples),
                                           HasLastMod)[i].lastmod]]
        ELSE [info EXCEPT !.error = "Sitemap found but could not parse XML structure"]

\* SitemapInfo{Domain: domain}
SitemapInfo(domain) ==
    [ domain |-> Str(domain), sitemap_url |-> "", exists |-> FALSE, status |-> "",
      is_sitemap_index |-> FALSE, url_count |-> 0, sub_sitemaps |-> <<>>,
      sample_urls |-> <<>>, last_modified |-> <<>>, error |-> "" ]

\* CheckSitemap checks sitemap.xml file for a domain. After the loop only a
\* missing response is "Not Found": a last response that is not 200 has had
\* its body closed and is read all the same
CheckSitemap(domain, net) ==
    LET cleanDomain == CleanDomain(domain)
        fetch       == FetchSitemap(cleanDomain, net)
        info        == [SitemapInfo(domain) EXCEPT !.sitemap_url = Str(fetch.sitemapURL)]
        found       == [info EXCEPT !.exists = TRUE,
                                    !.status = "HTTP " \o ToString(fetch.status)]
    IN  IF fetch.status = 0
        THEN [info EXCEPT !.exists = FALSE, !.status = "Not Found",
                          !.error = "Failed to find sitemap: dial tcp: i/o timeout"]
        ELSE IF fetch.closed
        THEN [found EXCEPT !.error = "Failed to read response: http: read on closed response body"]
        ELSE IF net.body = "unreadable"
        THEN [found EXCEPT !.error = "Failed to read response: unexpected EOF"]
        ELSE ParseSitemapBody(found, net.doc)

\* CheckOGImage checks Open Graph image tags for a URL, as far as the fetch
CheckOGImage(url, net) ==
    LET targetURL   == WithProtocol(url)
        cleanDomain == CleanDomain(targetURL)
        info == [url |-> Str(url), domain |-> Str(cleanDomain), found |-> FALSE, error |-> ""]
    IN  IF ~ParsesAsURL(targetURL) \/ ~net.http
        THEN [info EXCEPT !.error = "Failed to fetch URL: dial tcp: i/o timeout"]
        ELSE IF net.status # StatusOK
        THEN [info EXCEPT !.error = "HTTP " \o ToString(net.status)]
        ELSE IF net.body = "unreadable"
        THEN [info EXCEPT !.error = "Failed to read response: unexpected EOF"]
        ELSE info

\* the page handleHTMLProxy fetches: after a failed fetch the URL is the
\* http one
HTMLProxy(url, net) ==
    LET targetURL == WithProtocol(url)
        httpURL   == IF HasPrefix(targetURL, <<"https://">>)
                     THEN <<"http://">> \o TrimPrefix(targetURL, <<"https://">>)
                     ELSE targetURL
    IN  IF ~ParsesAsURL(targetURL) \/ ~net.http
        THEN [ url |-> Str(httpURL), html |-> "", status |-> 0,
               error |-> "Failed to fetch: dial tcp: i/o timeout" ]
        ELSE IF net.body = "unreadable"
        THEN [ url |-> Str(targetURL), html |-> "", status |-> 0,
               error |-> "Failed to read response: unexpected EOF" ]
        ELSE [ url |-> Str(targetURL), html |-> "<html></html>", status |-> net.status,
               error |-> "" ]

\* the check a name stands for, made on an input while the network does net
Check(checker, input, net) ==
    CASE checker = "ssl"             -> CheckSSL(input, net)
      [] checker = "http3"           -> CheckHTTP3(input, net)
      [] checker = "dns"             -> CheckDNS(input, net)
      [] checker = "ip"              -> CheckIP(input, net)
      [] checker = "web_settings"    -> CheckWebSettings(input, net)
      [] checker = "email_config"    -> CheckEmailConfig(input, net)
      [] checker = "blocklist"       -> CheckBlocklist(input, net)
      [] checker = "robots_txt"      -> CheckRobotsTxt(input, net)
      [] checker = "sitemap"         -> CheckSitemap(input, net)
      [] checker = "og_image"        -> CheckOGImage(input, net)
      [] checker = "html_proxy"      -> HTMLProxy(input, net)
      [] checker = "ssl+web_settings" -> CheckSSLAndWebSettings(input, net)
      [] checker = "hsts_header"     -> parseHSTSHeader(input)
      [] checker = "dmarc"           -> CheckDMARC(input, net)
\* ------------------------------------------------------------------------
\* The checkers as the handlers call them.  run is what the network does
\* during the request: run.net is "up" or "down", run.dur the time the I/O
\* takes.
\* ------------------------------------------------------------------------
\* a query value as the checkers parse it: the scheme, the host, the "/"
\* and the white space are tokens of their own
Tokens(text) ==
    CASE text = ""                   -> <<>>
      [] text = "https://a.example/" -> <<"https://", "a.example", "/">>
      [] text = "a b"                -> <<"a", " ", "b">>
      [] OTHER                       -> <<text>>

Network(run) == IF run.net = "up" THEN NetworkUp ELSE NetworkDown

NetReport(check, input, run) == Check(check, Tokens(input), Network(run))

\* ------------------------------------------------------------------------
\* API Handlers.  A handler yields the response, the cache it leaves, the
\* number of checker calls, of Cache.Get and of Cache.Set calls it made, and
\* the time it took.
\* ------------------------------------------------------------------------
Done(resp, it, checks, gets, sets, elapsed) ==
    [ resp |-> resp, items |-> it, checks |-> checks, gets |-> gets, sets |-> sets,
      elapsed |-> elapsed ]

BadRequest(it, msg) ==
    Done(APIResponse(StatusBadRequest, FALSE, Nil, msg, ""), it, 0, 0, 0, 0)

\* mutant: the report is stored without the route's TTL
cachedCheck_noTTL(it, t, run, route, pname, input, report) ==
    LET key == cacheKey(route, pname :> input, <<pname>>)
        g   == Get(it, key, t)
    IN  IF g.found
        THEN Done(APIResponse(StatusOK, TRUE, g.value, "", ""), g.items, 0, 1, 0, 0)
        ELSE IF route \in DOMAIN routeTTL
        THEN Done(APIResponse(StatusOK, TRUE, report, "", ""),
                  Set(g.items, key, report, 0, t + run.dur),
                  1, 1, 1, run.dur)
        ELSE Done(APIResponse(StatusOK, TRUE, report, "", ""), g.items, 1, 1, 0, run.dur)

\* mutant: a report that carries an error is not stored
cachedCheck_skipErrors(it, t, run, route, pname, input, report) ==
    LET key == cacheKey(route, pname :> input, <<pname>>)
        g   == Get(it, key, t)
    IN  IF g.found
        THEN Done(APIResponse(StatusOK, TRUE, g.value, "", ""), g.items, 0, 1, 0, 0)
        ELSE IF route \in DOMAIN routeTTL /\ report.error = ""
        THEN Done(APIResponse(StatusOK, TRUE, report, "", ""),
                  Set(g.items, key, report, routeTTL[route], t + run.dur),
                  1, 1, 1, run.dur)
        ELSE Done(APIResponse(StatusOK, TRUE, report, "", ""), g.items, 1, 1, 0, run.dur)

\* the cache-then-compute-then-store body shared by the cached handlers:
\* key := cacheKey(route, {pname: input}); Get; on a miss run the checker and
\* Set under the route's TTL if it has one
cachedCheck(it, t, run, route, pname, input, report) ==
    LET key == cacheKey(route, pname :> input, <<pname>>)
        g   == Get(it, key, t)
    IN  IF g.found
        THEN Done(APIResponse(StatusOK, TRUE, g.value, "", ""), g.items, 0, 1, 0, 0)
        ELSE IF route \in DOMAIN routeTTL
        THEN Done(APIResponse(StatusOK, TRUE, report, "", ""),
                  Set(g.items, key, report, routeTTL[route], t + run.dur),
                  1, 1, 1, run.dur)
        ELSE Done(APIResponse(StatusOK, TRUE, report, "", ""), g.items, 1, 1, 0, run.dur)

\* mutant: the cache is consulted before the parameter is validated
handleSSL_cacheFirst(it, req, t, run) ==
    cachedCheck(it, t, run, "/api/v1/ssl", "domain", req.query.domain,
                NetReport("ssl", req.query.domain, run))

handleSSL(it, req, t, run) ==
    IF req.query.domain = "" THEN BadRequest(it, "Domain parameter is required")
    ELSE cachedCheck(it, t, run, "/api/v1/ssl", "domain", req.query.domain,
                     NetReport("ssl", req.query.domain, run))

handleHTTP3(it, req, t, run) ==
    IF req.query.domain = "" THEN BadRequest(it, "Domain parameter is required")
    ELSE cachedCheck(it, t, run, "/api/v1/http3", "domain", req.query.domain,
                     NetReport("http3", req.query.domain, run))

handleDNS(it, req, t, run) ==
    IF req.query.domain = "" THEN BadRequest(it, "Domain parameter is required")
    ELSE cachedCheck(it, t, run, "/api/v1/dns", "domain", req.query.domain,
                     NetReport("dns", req.query.domain, run))

handleIP(it, req, t, run) ==
    LET input == IF req.query.ip = "" THEN req.query.domain ELSE req.query.ip
    IN  IF input = "" THEN BadRequest(it, "IP or domain parameter is required")
        ELSE cachedCheck(it, t, run, "/api/v1/ip", "input", input,
                         NetReport("ip", input, run))

handleMyIP(it, req, t, run) ==
    LET clientIP == getRealClientIP(req)
    IN  IF clientIP = "" THEN BadRequest(it, "Could not determine client IP address")
        ELSE cachedCheck(it, t, run, "/api/v1/my-ip", "ip", clientIP,
                         [ NetReport("ip", clientIP, run)
                             EXCEPT !.input = "Your IP: " \o clientIP ])

handleWebSettings(it, req, t, run) ==
    IF req.query.domain = "" THEN BadRequest(it, "Domain parameter is required")
    ELSE cachedCheck(it, t, run, "/api/v1/web-settings", "domain", req.query.domain,
                     NetReport("web_settings", req.query.domain, run))

handleEmailConfig(it, req, t, run) ==
    IF req.query.domain = "" THEN BadRequest(it, "Domain parameter is required")
    ELSE cachedCheck(it, t, run, "/api/v1/email-config", "domain", req.query.domain,
                     NetReport("email_config", req.query.domain, run))

handleBlocklist(it, req, t, run) ==
    IF req.query.domain = "" THEN BadRequest(it, "Domain parameter is required")
    ELSE cachedCheck(it, t, run, "/api/v1/blocklist", "domain", req.query.domain,
                     NetReport("blocklist", req.query.domain, run))

\* no cache: CheckWebSettings runs on every request; of its report only
\* the HSTS part is returned
handleHSTS(it, req, t, run) ==
    IF req.query.domain = "" THEN BadRequest(it, "Domain parameter is required")
    ELSE Done(APIResponse(StatusOK, TRUE,
                          [ domain |-> req.query.domain,
                            hsts |-> NetReport("web_settings", req.query.domain, run).hsts ],
                          "", ""),
              it, 1, 0, 0, run.dur)

handleRobotsTxt(it, req, t, run) ==
    IF req.query.domain = "" THEN BadRequest(it, "Domain parameter is required")
    ELSE cachedCheck(it, t, run, "/api/v1/robots-txt", "domain", req.query.domain,
                     NetReport("robots_txt", req.query.domain, run))

handleSitemap(it, req, t, run) ==
    IF req.query.domain = "" THEN BadRequest(it, "Domain parameter is required")
    ELSE cachedCheck(it, t, run, "/api/v1/sitemap", "domain", req.query.domain,
                     NetReport("sitemap", req.query.domain, run))

\* no cache: the page is fetched on every request; a failed fetch is still
\* answered 200 with success = true
handleHTMLProxy(it, req, t, run) ==
    IF req.query.url = "" THEN BadRequest(it, "URL parameter is required")
    ELSE Done(APIResponse(StatusOK, TRUE, NetReport("html_proxy", req.query.url, run), "", ""),
              it, 1, 0, 0, run.dur)

handleOGImage(it, req, t, run) ==
    LET targetURL == IF req.query.url = "" /\ req.query.domain # ""
                     THEN req.query.domain ELSE req.query.url
    IN  IF targetURL = "" THEN BadRequest(it, "URL or domain parameter is required")
        ELSE cachedCheck(it, t, run, "/api/v1/og-image", "url", targetURL,
                         NetReport("og_image", targetURL, run))

\* the checks the comprehensive handler runs, one goroutine each
ComprehensiveTasks == {"ssl+web_settings", "http3", "dns", "email_config", "robots_txt", "sitemap"}

\* no cache: six checker calls on every request, seven results and _meta
handleComprehensive(it, req, t, run) ==
    IF req.query.domain = "" THEN BadRequest(it, "Domain parameter is required")
    ELSE Done(APIResponse(StatusOK, TRUE,
                          [ ssl          |-> NetReport("ssl+web_settings", req.query.domain, run).SSL,
                            web_settings |-> NetReport("ssl+web_settings", req.query.domain, run).WebSettings,
                            http3        |-> NetReport("http3", req.query.domain, run),
                            dns          |-> NetReport("dns", req.query.domain, run),
                            email_config |-> NetReport("email_config", req.query.domain, run),
                            robots_txt   |-> NetReport("robots_txt", req.query.domain, run),
                            sitemap      |-> NetReport("sitemap", req.query.domain, run),
                            _meta        |-> [domain |-> req.query.domain, total_ms |-> run.dur] ],
                          "", ""),
              it, Cardinality(ComprehensiveTasks), 0, 0, run.dur)

handleHealth(it, req, t, run) ==
    Done(APIResponse(StatusOK, TRUE, [version |-> "1.0.0", status |-> "healthy"], "",
                     "NetCheck API is running"),
         it, 0, 0, 0, 0)

\* ------------------------------------------------------------------------
\* Routes (main)
\* ------------------------------------------------------------------------
\* the routes of the /api/v1 group, all behind rl.Middleware()
ApiRoutes ==
    ( "/api/v1/health"        :> "handleHealth" ) @@
    ( "/api/v1/ssl"           :> "handleSSL" ) @@
    ( "/api/v1/http3"         :> "handleHTTP3" ) @@
    ( "/api/v1/dns"           :> "handleDNS" ) @@
    ( "/api/v1/ip"            :> "handleIP" ) @@
    ( "/api/v1/my-ip"         :> "handleMyIP" ) @@
    ( "/api/v1/web-settings"  :> "handleWebSettings" ) @@
    ( "/api/v1/email-config"  :> "handleEmailConfig" ) @@
    ( "/api/v1/blocklist"     :> "handleBlocklist" ) @@
    ( "/api/v1/hsts"          :> "handleHSTS" ) @@
    ( "/api/v1/robots-txt"    :> "handleRobotsTxt" ) @@
    ( "/api/v1/sitemap"       :> "handleSitemap" ) @@
    ( "/api/v1/og-image"      :> "handleOGImage" ) @@
    ( "/api/v1/html-proxy"    :> "handleHTMLProxy" ) @@
    ( "/api/v1/comprehensive" :> "handleComprehensive" )

\* the routes outside the group: the Prometheus endpoint, the health check
\* and the root documentation
EngineRoutes ==
    ( "/metrics" :> "metrics" ) @@
    ( "/health"  :> "health" ) @@
    ( "/"        :> "root" )

\* the handler of an API route
ApiHandler(name, it, req, t, run) ==
    CASE name = "handleHealth"        -> handleHealth(it, req, t, run)
      [] name = "handleSSL"           -> handleSSL(it, req, t, run)
      [] name = "handleHTTP3"         -> handleHTTP3(it, req, t, run)
      [] name = "handleDNS"           -> handleDNS(it, req, t, run)
      [] name = "handleIP"            -> handleIP(it, req, t, run)
      [] name = "handleMyIP"          -> handleMyIP(it, req, t, run)
      [] name = "handleWebSettings"   -> handleWebSettings(it, req, t, run)
      [] name = "handleEmailConfig"   -> handleEmailConfig(it, req, t, run)
      [] name = "handleBlocklist"     -> handleBlocklist(it, req, t, run)
      [] name = "handleHSTS"          -> handleHSTS(it, req, t, run)
      [] name = "handleRobotsTxt"     -> handleRobotsTxt(it, req, t, run)
      [] name = "handleSitemap"       -> handleSitemap(it, req, t, run)
      [] name = "handleOGImage"       -> handleOGImage(it, req, t, run)
      [] name = "handleHTMLProxy"     -> handleHTMLProxy(it, req, t, run)
      [] name = "handleComprehensive" -> handleComprehensive(it, req, t, run)

\* ------------------------------------------------------------------------
\* One request through the engine: the authentication middleware, then the
\* route's chain (for /api/v1: the rate limiter, then the handler).  The
\* Prometheus middleware between them only counts and is left out.
\* ------------------------------------------------------------------------
Outcome(resp, bk, it, authNext, limited, allowed, handler, h) ==
    [ resp |-> resp, buckets |-> bk, items |-> it,
      authNext |-> authNext,      \* the authentication middleware called c.Next()
      limited  |-> limited,       \* rl.Middleware() ran
      allowed  |-> allowed,       \* and allow returned true
      handler  |-> handler,       \* the route handler that ran, "" when none did
      checks |-> h.checks, gets |-> h.gets, sets |-> h.sets, elapsed |-> h.elapsed ]

Idle(it) == Done(Plain(0, ""), it, 0, 0, 0, 0)

\* mutant: the rate limiter runs ahead of the authentication middleware
Serve_limitFirst(e, bk, it, t, req, run) ==
    LET a == AuthMiddleware(e, req)
        routed == req.method = "GET" /\ req.path \in DOMAIN ApiRoutes
    IN  IF routed
        THEN LET m == Middleware(bk, req, t)
                 h == ApiHandler(ApiRoutes[req.path], it, req, t, run)
             IN  IF ~m.next
                 THEN Outcome(m.resp, m.buckets, it, TRUE, TRUE, m.ok, "", Idle(it))
                 ELSE IF ~a.next
                 THEN Outcome(a.resp, m.buckets, it, FALSE, FALSE, FALSE, "", Idle(it))
                 ELSE Outcome(h.resp, m.buckets, h.items, TRUE, TRUE, m.ok,
                              ApiRoutes[req.path], h)
        ELSE IF ~a.next
        THEN Outcome(a.resp, bk, it, FALSE, FALSE, FALSE, "", Idle(it))
        ELSE IF req.method = "GET" /\ req.path \in DOMAIN EngineRoutes
        THEN Outcome(Plain(StatusOK, EngineRoutes[req.path]), bk, it, TRUE, FALSE, FALSE,
                     EngineRoutes[req.path], Idle(it))
        ELSE Outcome(Plain(StatusNotFound, "404 page not found"), bk, it, TRUE, FALSE, FALSE,
                     "", Idle(it))

Serve(e, bk, it, t, req, run) ==
    LET a == AuthMiddleware(e, req)
    IN  IF ~a.next
        THEN Outcome(a.resp, bk, it, FALSE, FALSE, FALSE, "", Idle(it))
        ELSE IF req.method = "GET" /\ req.path \in DOMAIN ApiRoutes
        THEN LET m == Middleware(bk, req, t)
                 h == ApiHandler(ApiRoutes[req.path], it, req, t, run)
             IN  IF ~m.next
                 THEN Outcome(m.resp, m.buckets, it, TRUE, TRUE, m.ok, "", Idle(it))
                 ELSE Outcome(h.resp, m.buckets, h.items, TRUE, TRUE, m.ok,
                              ApiRoutes[req.path], h)
        ELSE IF req.method = "GET" /\ req.path \in DOMAIN EngineRoutes
        THEN Outcome(Plain(StatusOK, EngineRoutes[req.path]), bk, it, TRUE, FALSE, FALSE,
                     EngineRoutes[req.path], Idle(it))
        ELSE Outcome(Plain(StatusNotFound, "404 page not found"), bk, it, TRUE, FALSE, FALSE,
                     "", Idle(it))

\* ------------------------------------------------------------------------
\* The engine serving HTTP requests
\* ------------------------------------------------------------------------
\* the environment the observers start from when no request is served
NoEnv == [GIN_MODE |-> <<>>, API_SECRET_KEY |-> <<>>]

NoQuery == [domain |-> "", ip |-> "", url |-> ""]

NoRequest ==
    [ method |-> "", path |-> "", query |-> NoQuery,
      xInternalProxy |-> <<>>, xAPISecret |-> <<>>, authorization |-> <<>>,
      xForwardedFor |-> <<>>, xRealIP |-> <<>>, cfConnectingIP |-> <<>>,
      remoteAddr |-> <<>> ]

NoSeen == [at |-> 0, data |-> Nil]

NoServed ==
    [ called |-> FALSE, req |-> NoRequest, client |-> "", at |-> 0,
      resp |-> Plain(0, ""), authNext |-> FALSE, limited |-> FALSE, allowed |-> FALSE,
      handler |-> "", checks |-> 0, gets |-> 0, sets |-> 0, elapsed |-> 0, kept |-> TRUE,
      hadSeen |-> FALSE, seen |-> NoSeen, hadStored |-> FALSE, stored |-> NoSeen,
      failed |-> FALSE ]

\* what identifies a call's route and parameters: the path, the query and,
\* for my-ip, the client address the handler keys on
CallId(req) ==
    <<req.path, req.query,
      IF req.path = "/api/v1/my-ip" THEN getRealClientIP(req) ELSE "">>

\* the engine serves one request, from the first middleware to the response;
\* the clock moves on by the time the handler's network I/O took
Request(req, run, max) ==
    /\ nreq < max
    /\ \E o \in {Serve(env, buckets, items, now, req, run)} :
          LET id      == CallId(req)
              handled == o.handler # "" /\ req.path \in DOMAIN ApiRoutes
                            /\ o.resp.status = StatusOK
          IN  /\ buckets' = o.buckets
              /\ items' = o.items
              /\ now' = now + o.elapsed
              /\ srvLast' =
                    [ called |-> TRUE, req |-> req, client |-> getRealClientIP(req),
                      at |-> now,
                      resp |-> o.resp, authNext |-> o.authNext, limited |-> o.limited,
                      allowed |-> o.allowed, handler |-> o.handler,
                      checks |-> o.checks, gets |-> o.gets, sets |-> o.sets,
                      elapsed |-> o.elapsed,
                      kept |-> o.items = items,      \* the cache is as it was
                      hadSeen   |-> id \in DOMAIN srvSeen,
                      seen      |-> IF id \in DOMAIN srvSeen THEN srvSeen[id] ELSE NoSeen,
                      hadStored |-> id \in DOMAIN srvStored,
                      stored    |-> IF id \in DOMAIN srvStored THEN srvStored[id]
                                    ELSE NoSeen,
                      \* a checker ran while the network was down
                      failed    |-> o.checks > 0 /\ run.net = "down" ]
              /\ srvSeen' = IF handled
                            THEN MapPut(srvSeen, id, [at |-> now, data |-> o.resp.data])
                            ELSE srvSeen
              /\ srvStored' = IF handled /\ o.sets > 0
                              THEN MapPut(srvStored, id,
                                          [at |-> now + o.elapsed, data |-> o.resp.data])
                              ELSE srvStored
    /\ nreq' = nreq + 1
    /\ UNCHANGED <<env, ticks, rlLast, rlHist, rlCalls, cacheLast, cacheSets, keyVars, compVars, chkVars, concVars>>

\* no request served yet
NoServer ==
    /\ env = NoEnv
    /\ srvLast = NoServed
    /\ srvSeen = EmptyMap
    /\ srvStored = EmptyMap
    /\ nreq = 0

\* ------------------------------------------------------------------------
\* Requests and environments the engine is run with
\* ------------------------------------------------------------------------
\* the secret the deployment configures
Secret == <<"s3cret">>

\* production with the secret configured
ProdEnv == [GIN_MODE |-> <<>>, API_SECRET_KEY |-> Secret]

Envs ==
    [ GIN_MODE : {<<>>, <<" ", "debug">>},
      API_SECRET_KEY : {<<>>, Secret, <<" ">> \o Secret \o <<" ">>} ]

\* the address of the proxy's connection
ProxyAddr == <<"172.16.0.1", ":", "4711">>

\* what the network does during a request: it answers at once, or fails
\* after a while
NetUp == [net |-> "up", dur |-> 0]

NetDown == [net |-> "down", dur |-> 1]

Runs == {NetUp, NetDown}

FullQuery == [domain |-> "a.example", ip |-> "8.8.8.8", url |-> "https://a.example/"]

Queries ==
    { NoQuery,
      [NoQuery EXCEPT !.domain = "a.example"],
      [NoQuery EXCEPT !.ip = "8.8.8.8"],
      [NoQuery EXCEPT !.url = "https://a.example/"] }

\* a request as the application proxy sends it for a client
ProxyRequest(path, query, xff) ==
    [ method |-> "GET", path |-> path, query |-> query,
      xInternalProxy |-> <<"true">>, xAPISecret |-> Secret, authorization |-> <<>>,
      xForwardedFor |-> xff, xRealIP |-> <<>>, cfConnectingIP |-> <<>>,
      remoteAddr |-> ProxyAddr ]

\* the paths that differ in how they are routed: the engine's own routes, a
\* route of the group without a check, a cached and an uncached check, and a
\* path the router does not know
AuthPaths ==
    DOMAIN EngineRoutes \cup
    {"/api/v1/health", "/api/v1/ssl", "/api/v1/hsts", "/api/v1/whois"}

\* requests with every combination of credentials, from anywhere
AuthRequests ==
    [ method : {"GET", "OPTIONS"}, path : AuthPaths, query : {FullQuery},
      xInternalProxy : {<<>>, <<"true">>, <<"1">>},
      xAPISecret : {<<>>, Secret, <<"guess">>},
      authorization : {<<>>, <<"Bearer ">> \o Secret, Secret},
      xForwardedFor : {<<"10.0.0.1">>}, xRealIP : {<<>>}, cfConnectingIP : {<<>>},
      remoteAddr : {ProxyAddr} ]

\* the proxy's requests for one client, with every query
ServerRequests ==
    { ProxyRequest(p, q, <<"10.0.0.1">>) : p \in DOMAIN ApiRoutes, q \in Queries }

\* the proxy's requests for one client that repeat: the client's own address,
\* one address looked up as ip and as domain, and an uncached check
RepeatRequests ==
    { ProxyRequest("/api/v1/my-ip", NoQuery, <<"10.0.0.1">>),
      ProxyRequest("/api/v1/ip", [NoQuery EXCEPT !.ip = "8.8.8.8"], <<"10.0.0.1">>),
      ProxyRequest("/api/v1/ip", [NoQuery EXCEPT !.domain = "8.8.8.8"], <<"10.0.0.1">>),
      ProxyRequest("/api/v1/hsts", [NoQuery EXCEPT !.domain = "a.example"], <<"10.0.0.1">>) }

\* the X-Forwarded-For chains of the flooding clients
FloodClients == { <<"10.0.0.1">>, <<" ", "10.0.0.2", ",", "172.16.0.1">> }

\* the proxy's requests for the comprehensive check of one domain
FloodRequests ==
    { ProxyRequest("/api/v1/comprehensive", [NoQuery EXCEPT !.domain = "a.example"], xff) :
         xff \in FloodClients }


\* ------------------------------------------------------------------------
\* handleComprehensive, goroutine by goroutine
\* ------------------------------------------------------------------------
\* the names under which the results are sent on resultChan
ResultNames == {"ssl", "web_settings", "http3", "dns", "email_config", "robots_txt", "sitemap"}

\* cap(resultChan): make(chan result, 7)
ResultChanCap == 7

\* the number of results the handler receives: for i := 0; i < 7; i++
ResultCount == 7

\* time.Duration.Milliseconds of a number of ticks
Milliseconds(d) == (d * 1000) \div TicksPerSecond

\* a value sent on resultChan
result(name, data, durationMs) == [name |-> name, data |-> data, durationMs |-> durationMs]

\* mutant: the combined goroutine sends the SSL report under both names
TaskResults_sslTwice(task, domain, run) ==
    IF task = "ssl+web_settings"
    THEN << result("ssl", NetReport(task, domain, run).SSL, Milliseconds(run.dur)),
            result("ssl", NetReport(task, domain, run).SSL, Milliseconds(run.dur)) >>
    ELSE << result(task, NetReport(task, domain, run), Milliseconds(run.dur)) >>

\* mutant: the DNS goroutine sends its result twice
TaskResults_dnsTwice(task, domain, run) ==
    IF task = "ssl+web_settings"
    THEN << result("ssl", NetReport(task, domain, run).SSL, Milliseconds(run.dur)),
            result("web_settings", NetReport(task, domain, run).WebSettings,
                   Milliseconds(run.dur)) >>
    ELSE IF task = "dns"
    THEN << result(task, NetReport(task, domain, run), Milliseconds(run.dur)),
            result(task, NetReport(task, domain, run), Milliseconds(run.dur)) >>
    ELSE << result(task, NetReport(task, domain, run), Milliseconds(run.dur)) >>

\* what a goroutine has to send once its checker call has returned: the
\* combined goroutine two results with the one duration, the others one
TaskResults(task, domain, run) ==
    IF task = "ssl+web_settings"
    THEN << result("ssl", NetReport(task, domain, run).SSL, Milliseconds(run.dur)),
            result("web_settings", NetReport(task, domain, run).WebSettings,
                   Milliseconds(run.dur)) >>
    ELSE << result(task, NetReport(task, domain, run), Milliseconds(run.dur)) >>

\* the largest of the values of a map, 0 for the empty map
RECURSIVE MaxValue(_)
MaxValue(m) ==
    IF DOMAIN m = {} THEN 0
    ELSE LET k    == CHOOSE x \in DOMAIN m : TRUE
             rest == MaxValue(MapDel(m, k))
         IN  IF m[k] > rest THEN m[k] ELSE rest

\* the handler before a request: no locals, no goroutine
NoHandler ==
    [ pc |-> "idle", domain |-> "", i |-> 0, comprehensiveData |-> EmptyMap,
      timings |-> EmptyMap, writes |-> [n \in ResultNames |-> 0],
      running |-> {}, resp |-> Plain(0, "") ]

NoGoroutine == [pc |-> "idle", results |-> <<>>]

NoComprehensive ==
    /\ goroutines = [task \in ComprehensiveTasks |-> NoGoroutine]
    /\ resultChan = <<>>
    /\ agg = NoHandler

\* the handler up to its receive loop: the domain is validated, the channel
\* made and the six goroutines started
Comprehensive(domain) ==
    /\ agg.pc = "idle"
    /\ IF domain = ""
       THEN /\ agg' = [agg EXCEPT !.pc = "done", !.domain = domain,
                         !.resp = APIResponse(StatusBadRequest, FALSE, Nil,
                                              "Domain parameter is required", "")]
            /\ UNCHANGED <<goroutines, resultChan>>
       ELSE /\ agg' = [agg EXCEPT !.pc = "recv", !.domain = domain]
            /\ goroutines' = [task \in ComprehensiveTasks |-> [pc |-> "check", results |-> <<>>]]
            /\ resultChan' = <<>>

\* the domains the comprehensive check is asked for
ComprehensiveDomains == {"", "a.example"}

\* the results of every checker call the goroutines can make, worked out
\* once: a call's results depend on the task, the domain and the network
TaskResultsOf ==
    [task \in ComprehensiveTasks |->
        [domain \in ComprehensiveDomains |->
            [run \in Runs |-> TaskResults(task, domain, run)]]]

\* the checker call of a goroutine returns, whatever the network did, and the
\* goroutine sends its first result: resultChan <- result{...} blocks while
\* the channel is full
CheckReturns(task, run) ==
    /\ goroutines[task].pc = "check"
    /\ Len(resultChan) < ResultChanCap
    /\ LET results == TaskResultsOf[task][agg.domain][run]
       IN  /\ resultChan' = Append(resultChan, Head(results))
           /\ goroutines' = [goroutines EXCEPT
                               ![task] = IF Len(results) = 1
                                         THEN [pc |-> "done", results |-> <<>>]
                                         ELSE [pc |-> "send", results |-> Tail(results)]]
    /\ UNCHANGED agg

\* the combined goroutine sends its second result
Send(task) ==
    /\ goroutines[task].pc = "send"
    /\ Len(resultChan) < ResultChanCap
    /\ resultChan' = Append(resultChan, Head(goroutines[task].results))
    /\ goroutines' = [goroutines EXCEPT
                        ![task] = IF Len(@.results) = 1
                                  THEN [pc |-> "done", results |-> <<>>]
                                  ELSE [pc |-> "send", results |-> Tail(@.results)]]
    /\ UNCHANGED agg

\* res := <-resultChan; comprehensiveData[res.name] = res.data;
\* timings[res.name] = res.durationMs
Receive ==
    /\ agg.pc = "recv"
    /\ agg.i < ResultCount
    /\ Len(resultChan) > 0
    /\ LET res == Head(resultChan)
       IN  agg' = [agg EXCEPT !.i = @ + 1,
                              !.comprehensiveData = MapPut(@, res.name, res.data),
                              !.timings = MapPut(@, res.name, res.durationMs),
                              !.writes[res.name] = @ + 1]
    /\ resultChan' = Tail(resultChan)
    /\ UNCHANGED goroutines

\* mutant: the handler answers after six results
Respond_early ==
    /\ agg.pc = "recv"
    /\ agg.i >= ResultCount - 1
    /\ LET total == MaxValue(agg.timings)
           data  == MapPut(agg.comprehensiveData, "_meta",
                           [ timings  |-> MapPut(agg.timings, "total", total),
                             domain   |-> agg.domain,
                             total_ms |-> total ])
       IN  agg' = [agg EXCEPT !.pc = "done",
                              !.running = {task \in ComprehensiveTasks :
                                              goroutines[task].pc = "check"},
                              !.resp = APIResponse(StatusOK, TRUE, data, "", "")]
    /\ UNCHANGED <<goroutines, resultChan>>

\* the loop is over: the total is taken, _meta added and the response sent.
\* The goroutines run side by side, so the time since the start of the
\* request is that of the slowest check.
Respond ==
    /\ agg.pc = "recv"
    /\ agg.i >= ResultCount
    /\ LET total == MaxValue(agg.timings)
           data  == MapPut(agg.comprehensiveData, "_meta",
                           [ timings  |-> MapPut(agg.timings, "total", total),
                             domain   |-> agg.domain,
                             total_ms |-> total ])
       IN  agg' = [agg EXCEPT !.pc = "done",
                              !.running = {task \in ComprehensiveTasks :
                                              goroutines[task].pc = "check"},
                              !.resp = APIResponse(StatusOK, TRUE, data, "", "")]
    /\ UNCHANGED <<goroutines, resultChan>>

\* ------------------------------------------------------------------------
\* Checker calls on their own
\* ------------------------------------------------------------------------
NoCheckerCall == [checker |-> "", input |-> <<>>, net |-> Nil]

\* no checker called
NoChecker ==
    /\ chkIn = NoCheckerCall
    /\ chkOut = Nil

\* ------------------------------------------------------------------------
\* Goroutines calling allow, Cache.Get and Cache.Set side by side
\* ------------------------------------------------------------------------
\* no goroutine in allow, in Cache.Get or in Cache.Set
NoConcurrency ==
    /\ mu = 0
    /\ allowCalls = <<>>
    /\ cchMu = [writer |-> 0, readers |-> {}]
    /\ cacheCalls = <<>>

\* ------------------------------------------------------------------------
\* RateLimiter.allow, statement by statement, called by several goroutines
\* ------------------------------------------------------------------------
\* a goroutine about to call allow(ip, route); held is what the bucket of the
\* key holds when the calls begin
AllowCall0(ip, route, held) ==
    [ pc |-> "call", ip |-> ip, route |-> route, key |-> RLKey(ip, route),
      rpm |-> RouteRpm(route), tokens |-> 0, ok |-> FALSE, held |-> held ]

\* mutant: rl.mu.Lock() does not wait for the mutex
AllowLock_noWait(g) ==
    /\ allowCalls[g].pc = "call"
    /\ mu' = g
    /\ allowCalls' = [allowCalls EXCEPT
                        ![g] = IF @.rpm <= 0 THEN [@ EXCEPT !.pc = "unlock", !.ok = TRUE]
                               ELSE [@ EXCEPT !.pc = "lookup"]]
    /\ UNCHANGED <<buckets, now>>

\* rl.mu.Lock(), then the limit of the route: a limit of 0 or less disables
\* the limiter
AllowLock(g) ==
    /\ allowCalls[g].pc = "call"
    /\ mu = 0
    /\ mu' = g
    /\ allowCalls' = [allowCalls EXCEPT
                        ![g] = IF @.rpm <= 0 THEN [@ EXCEPT !.pc = "unlock", !.ok = TRUE]
                               ELSE [@ EXCEPT !.pc = "lookup"]]
    /\ UNCHANGED <<buckets, now>>

\* b, ok := rl.buckets[key]; a missing bucket is created full
AllowLookup(g) ==
    /\ allowCalls[g].pc = "lookup"
    /\ buckets' = IF allowCalls[g].key \in DOMAIN buckets THEN buckets
                  ELSE MapPut(buckets, allowCalls[g].key, tokenBucket(allowCalls[g].rpm, now))
    /\ allowCalls' = [allowCalls EXCEPT ![g].pc = "refill"]
    /\ UNCHANGED <<mu, now>>

\* now := time.Now() and the refill
AllowRefill(g) ==
    /\ allowCalls[g].pc = "refill"
    /\ buckets' = [buckets EXCEPT ![allowCalls[g].key] = Refill(@, now)]
    /\ allowCalls' = [allowCalls EXCEPT ![g].pc = "check"]
    /\ UNCHANGED <<mu, now>>

\* if b.tokens >= 1.0: the goroutine reads the token count
AllowCheck(g) ==
    /\ allowCalls[g].pc = "check"
    /\ LET tokens == buckets[allowCalls[g].key].tokens
       IN  allowCalls' = [allowCalls EXCEPT
                            ![g] = IF tokens >= Float(1)
                                   THEN [@ EXCEPT !.pc = "deduct", !.tokens = tokens]
                                   ELSE [@ EXCEPT !.pc = "unlock", !.tokens = tokens,
                                                  !.ok = FALSE]]
    /\ UNCHANGED <<mu, buckets, now>>

\* b.tokens -= 1.0; return true: the count read, less one token, is written
AllowDeduct(g) ==
    /\ allowCalls[g].pc = "deduct"
    /\ buckets' = [buckets EXCEPT ![allowCalls[g].key].tokens = allowCalls[g].tokens - Float(1)]
    /\ allowCalls' = [allowCalls EXCEPT ![g].pc = "unlock", ![g].ok = TRUE]
    /\ UNCHANGED <<mu, now>>

\* the deferred rl.mu.Unlock() as the call returns
AllowUnlock(g) ==
    /\ allowCalls[g].pc = "unlock"
    /\ mu' = 0
    /\ allowCalls' = [allowCalls EXCEPT ![g].pc = "done"]
    /\ UNCHANGED <<buckets, now>>

\* ------------------------------------------------------------------------
\* Cache.Get and Cache.Set, statement by statement, called by several
\* goroutines.  Cache.mu is a sync.RWMutex: a writer excludes everyone, the
\* readers exclude the writers.
\* ------------------------------------------------------------------------
\* no entry deleted
NoDelete == [done |-> FALSE, had |-> FALSE, expiry |-> 0, at |-> 0]

\* a goroutine about to call Get(key) or Set(key, val, ttl); deleted is the
\* observer of what Get's delete removed
CacheCall0(op, key, val, ttl) ==
    [ op |-> op, pc |-> "call", key |-> key, val |-> val, ttl |-> ttl,
      it |-> cacheItem(Nil, 0), ok |-> FALSE, value |-> Nil, found |-> FALSE,
      deleted |-> NoDelete ]

\* cch.mu.RLock()
GetRLock(g) ==
    /\ cacheCalls[g].op = "get"
    /\ cacheCalls[g].pc = "call"
    /\ cchMu.writer = 0
    /\ cchMu' = [cchMu EXCEPT !.readers = @ \cup {g}]
    /\ cacheCalls' = [cacheCalls EXCEPT ![g].pc = "read"]
    /\ UNCHANGED <<items, now>>

\* it, ok := cch.items[key]
GetRead(g) ==
    /\ cacheCalls[g].pc = "read"
    /\ LET key == cacheCalls[g].key
       IN  cacheCalls' = [cacheCalls EXCEPT
                            ![g] = IF key \in DOMAIN items
                                   THEN [@ EXCEPT !.pc = "runlock", !.it = items[key],
                                                  !.ok = TRUE]
                                   ELSE [@ EXCEPT !.pc = "runlock", !.ok = FALSE]]
    /\ UNCHANGED <<items, cchMu, now>>

\* cch.mu.RUnlock(); if !ok { return nil, false }
GetRUnlock(g) ==
    /\ cacheCalls[g].pc = "runlock"
    /\ cchMu' = [cchMu EXCEPT !.readers = @ \ {g}]
    /\ cacheCalls' = [cacheCalls EXCEPT
                        ![g].pc = IF cacheCalls[g].ok THEN "expiry" ELSE "done"]
    /\ UNCHANGED <<items, now>>

\* if time.Now().After(it.expiry), else return it.value, true
GetExpiry(g) ==
    /\ cacheCalls[g].pc = "expiry"
    /\ cacheCalls' = [cacheCalls EXCEPT
                        ![g] = IF now > @.it.expiry THEN [@ EXCEPT !.pc = "lock"]
                               ELSE [@ EXCEPT !.pc = "done", !.value = cacheCalls[g].it.value,
                                              !.found = TRUE]]
    /\ UNCHANGED <<items, cchMu, now>>

\* cch.mu.Lock() of Get
GetLock(g) ==
    /\ cacheCalls[g].op = "get"
    /\ cacheCalls[g].pc = "lock"
    /\ cchMu.writer = 0
    /\ cchMu.readers = {}
    /\ cchMu' = [cchMu EXCEPT !.writer = g]
    /\ cacheCalls' = [cacheCalls EXCEPT ![g].pc = "delete"]
    /\ UNCHANGED <<items, now>>

\* delete(cch.items, key): whatever entry the key has now is removed
GetDelete(g) ==
    /\ cacheCalls[g].pc = "delete"
    /\ LET key == cacheCalls[g].key
       IN  /\ items' = MapDel(items, key)
           /\ cacheCalls' = [cacheCalls EXCEPT
                               ![g].pc = "unlock",
                               ![g].deleted =
                                   [ done   |-> TRUE,
                                     had    |-> key \in DOMAIN items,
                                     expiry |-> IF key \in DOMAIN items THEN items[key].expiry
                                                ELSE 0,
                                     at     |-> now ]]
    /\ UNCHANGED <<cchMu, now>>

\* cch.mu.Unlock(); return nil, false
GetUnlock(g) ==
    /\ cacheCalls[g].op = "get"
    /\ cacheCalls[g].pc = "unlock"
    /\ cchMu' = [cchMu EXCEPT !.writer = 0]
    /\ cacheCalls' = [cacheCalls EXCEPT ![g].pc = "done"]
    /\ UNCHANGED <<items, now>>

\* cch.mu.Lock() of Set
SetLock(g) ==
    /\ cacheCalls[g].op = "set"
    /\ cacheCalls[g].pc = "call"
    /\ cchMu.writer = 0
    /\ cchMu.readers = {}
    /\ cchMu' = [cchMu EXCEPT !.writer = g]
    /\ cacheCalls' = [cacheCalls EXCEPT ![g].pc = "store"]
    /\ UNCHANGED <<items, now>>

\* cch.items[key] = cacheItem{value: val, expiry: time.Now().Add(ttl)}
SetStore(g) ==
    /\ cacheCalls[g].pc = "store"
    /\ items' = Set(items, cacheCalls[g].key, cacheCalls[g].val, cacheCalls[g].ttl, now)
    /\ cacheCalls' = [cacheCalls EXCEPT ![g].pc = "unlock"]
    /\ UNCHANGED <<cchMu, now>>

\* cch.mu.Unlock() of Set
SetUnlock(g) ==
    /\ cacheCalls[g].op = "set"
    /\ cacheCalls[g].pc = "unlock"
    /\ cchMu' = [cchMu EXCEPT !.writer = 0]
    /\ cacheCalls' = [cacheCalls EXCEPT ![g].pc = "done"]
    /\ UNCHANGED <<items, now>>
\* ------------------------------------------------------------------------
\* The rate limiter on its own: calls of allow and the passing of time
\* ------------------------------------------------------------------------
\* the (client IP, route) pairs the calls are made for
RLKeys ==
    { <<"10.0.0.1", "/api/v1/comprehensive">>,
      <<"10.0.0.2", "/api/v1/comprehensive">>,
      <<"10.0.0.1", "/api/v1/ssl">> }

NoCall ==
    [ called |-> FALSE, key |-> "", route |-> "", ok |-> TRUE, at |-> 0, fresh |-> FALSE,
      capacity |-> 0, before |-> 0, elapsed |-> 0, after |-> 0,
      n |-> 0, created |-> 0, hadPrev |-> FALSE, prevOk |-> TRUE, prevAt |-> 0 ]

\* what a call of allow(ip, route) at time t did, seen from outside
ObserveAllow(bk, hist, ip, route, t) ==
    LET key   == RLKey(ip, route)
        r     == allow(bk, ip, route, t)
        fresh == key \notin DOMAIN bk
        h     == IF fresh THEN [n |-> 0, created |-> t, ok |-> TRUE, at |-> t] ELSE hist[key]
        cap   == r.buckets[key].capacity
    IN  [ called |-> TRUE, key |-> key, route |-> route, ok |-> r.ok, at |-> t, fresh |-> fresh,
          capacity |-> cap,
          before   |-> IF fresh THEN Float(cap) ELSE bk[key].tokens,
          elapsed  |-> IF fresh THEN 0 ELSE t - bk[key].lastRefill,
          after    |-> r.buckets[key].tokens,
          n        |-> IF h.n > cap THEN cap + 2 ELSE h.n + 1,
          created  |-> h.created,
          hadPrev  |-> ~fresh,
          prevOk   |-> h.ok,
          prevAt   |-> h.at ]

AllowCall(ip, route) ==
    /\ rlCalls < MaxCalls
    /\ LET o == ObserveAllow(buckets, rlHist, ip, route, now)
       IN  /\ buckets' = allow(buckets, ip, route, now).buckets
           /\ rlLast' = o
           /\ rlHist' = MapPut(rlHist, o.key,
                               [n |-> o.n, created |-> o.created, ok |-> o.ok, at |-> o.at])
    /\ rlCalls' = rlCalls + 1
    /\ UNCHANGED clockVars

\* the clock advances by d ticks
Tick(d) ==
    /\ ticks < MaxTicks
    /\ now' = now + d
    /\ ticks' = ticks + 1

\* one tick, ten seconds, one minute
RLSteps == {1, 10 * TicksPerSecond, SecondsPerMinute * TicksPerSecond}

\* the rate limiter as NewRateLimiter leaves it
NewRateLimiter ==
    /\ buckets = EmptyMap
    /\ rlLast = NoCall
    /\ rlHist = EmptyMap
    /\ rlCalls = 0

\* ------------------------------------------------------------------------
\* The cache on its own: calls of Get and Set and the passing of time
\* ------------------------------------------------------------------------
CacheKeys == {"/api/v1/my-ip?ip=10.0.0.1", "/api/v1/ip?input=8.8.8.8"}

CacheValues == {"report1", "report2"}

CacheTTLs == {routeTTL["/api/v1/my-ip"], routeTTL["/api/v1/ip"]}

\* one tick, thirty seconds, one minute
CacheSteps == {1, Seconds(30), Minutes(1)}

NoCacheCall ==
    [ op |-> "none", key |-> "", at |-> 0, had |-> FALSE, expiry |-> 0,
      value |-> Nil, found |-> FALSE, present |-> FALSE ]

GetCall(key) ==
    LET g == Get(items, key, now)
    IN  /\ items' = g.items
        /\ cacheLast' = [ op |-> "get", key |-> key, at |-> now,
                          had |-> key \in DOMAIN items,
                          expiry |-> IF key \in DOMAIN items THEN items[key].expiry ELSE 0,
                          value |-> g.value, found |-> g.found,
                          present |-> key \in DOMAIN g.items ]
        /\ UNCHANGED <<cacheSets, clockVars>>

SetCall(key, val, ttl) ==
    /\ items' = Set(items, key, val, ttl, now)
    /\ cacheLast' = [ op |-> "set", key |-> key, at |-> now,
                      had |-> key \in DOMAIN items,
                      expiry |-> now + ttl,
                      value |-> val, found |-> FALSE, present |-> TRUE ]
    /\ cacheSets' = MapPut(cacheSets, key, val)
    /\ UNCHANGED clockVars

\* the cache as NewCache leaves it
NewCache ==
    /\ items = EmptyMap
    /\ cacheLast = NoCacheCall
    /\ cacheSets = EmptyMap

\* ------------------------------------------------------------------------
\* cacheKey on its own: the same arguments, keyed twice
\* ------------------------------------------------------------------------
KeyRoutes == {"/api/v1/ip", "/api/v1/og-image"}

KeyNames == {"domain", "ip", "url"}

KeyValues == {"a.example", "8.8.8.8"}

\* the parameter maps: every map from a set of names to values
KeyMaps == UNION { [N -> KeyValues] : N \in SUBSET KeyNames }

NoKey ==
    /\ keyIn = [route |-> "", q |-> EmptyMap]
    /\ keyOut = <<>>

CacheKeyCall ==
    /\ Len(keyOut) < 2
    /\ \E order \in Orders(DOMAIN keyIn.q) :
          keyOut' = Append(keyOut, cacheKey(keyIn.route, keyIn.q, order))
    /\ UNCHANGED keyIn

InitCache ==
    /\ now = 0
    /\ ticks = 0
    /\ NewRateLimiter
    /\ NewCache
    /\ NoKey
    /\ NoComprehensive
    /\ NoChecker
    /\ NoConcurrency
    /\ NoServer

offCache == <<rlVars, keyVars, srvVars, compVars, chkVars, concVars>>

NextCache ==
    \/ \E k \in CacheKeys : GetCall(k) /\ UNCHANGED offCache
    \/ \E k \in CacheKeys, v \in CacheValues, ttl \in CacheTTLs :
          SetCall(k, v, ttl) /\ UNCHANGED offCache
    \/ \E d \in CacheSteps : Tick(d) /\ UNCHANGED <<cacheVars, offCache>>

SpecCache == InitCache /\ [][NextCache]_vars

InitKey ==
    /\ now = 0
    /\ ticks = 0
    /\ NewRateLimiter
    /\ NewCache
    /\ keyIn \in [route : KeyRoutes, q : KeyMaps]
    /\ keyOut = <<>>
    /\ NoComprehensive
    /\ NoChecker
    /\ NoConcurrency
    /\ NoServer

offKey == <<clockVars, rlVars, cacheVars, srvVars, compVars, chkVars, concVars>>

NextKey == CacheKeyCall /\ UNCHANGED offKey

SpecKey == InitKey /\ [][NextKey]_vars

InitRL ==
    /\ now = 0
    /\ ticks = 0
    /\ NewRateLimiter
    /\ NewCache
    /\ NoKey
    /\ NoComprehensive
    /\ NoChecker
    /\ NoConcurrency
    /\ NoServer

\* the variables the rate limiter's specification leaves alone
offRL == <<cacheVars, keyVars, srvVars, compVars, chkVars, concVars>>

NextRL ==
    \/ \E k \in RLKeys : AllowCall(k[1], k[2]) /\ UNCHANGED offRL
    \/ \E d \in RLSteps : Tick(d) /\ UNCHANGED <<rlVars, offRL>>

SpecRL == InitRL /\ [][NextRL]_vars


\* ------------------------------------------------------------------------
\* The engine behind its proxy: requests to the API and the passing of time
\* ------------------------------------------------------------------------
InitServer ==
    /\ now = 0
    /\ ticks = 0
    /\ NewRateLimiter
    /\ NewCache
    /\ NoKey
    /\ NoComprehensive
    /\ NoChecker
    /\ NoConcurrency
    /\ env = ProdEnv
    /\ srvLast = NoServed
    /\ srvSeen = EmptyMap
    /\ srvStored = EmptyMap
    /\ nreq = 0

\* thirty seconds, one minute
ServerSteps == {Seconds(30), Minutes(1)}

NextServer ==
    \/ \E req \in ServerRequests, run \in Runs : Request(req, run, MaxRequests)
    \/ \E d \in ServerSteps : Tick(d) /\ UNCHANGED <<rlVars, cacheVars, keyVars, compVars, chkVars, concVars, srvVars>>

SpecServer == InitServer /\ [][NextServer]_vars

\* ------------------------------------------------------------------------
\* The same few requests again and again, as time passes
\* ------------------------------------------------------------------------
NextRepeat ==
    \/ \E req \in RepeatRequests, run \in Runs : Request(req, run, MaxRepeats)
    \/ \E d \in ServerSteps : Tick(d) /\ UNCHANGED <<rlVars, cacheVars, keyVars, compVars, chkVars, concVars, srvVars>>

SpecRepeat == InitServer /\ [][NextRepeat]_vars

\* ------------------------------------------------------------------------
\* The engine reached from anywhere, under every environment
\* ------------------------------------------------------------------------
InitAuth ==
    /\ now = 0
    /\ ticks = 0
    /\ NewRateLimiter
    /\ NewCache
    /\ NoKey
    /\ NoComprehensive
    /\ NoChecker
    /\ NoConcurrency
    /\ env \in Envs
    /\ srvLast = NoServed
    /\ srvSeen = EmptyMap
    /\ srvStored = EmptyMap
    /\ nreq = 0

\* the network is up: what it does makes no difference to who is let in
NextAuth ==
    \E req \in AuthRequests : Request(req, NetUp, MaxRequests)

SpecAuth == InitAuth /\ [][NextAuth]_vars

\* ------------------------------------------------------------------------
\* Clients flooding the comprehensive check
\* ------------------------------------------------------------------------
\* one tick, ten seconds
FloodSteps == {1, Seconds(10)}

\* the network is up: the checks of an admitted request take no time
NextFlood ==
    \/ \E req \in FloodRequests : Request(req, NetUp, MaxFlood)
    \/ \E d \in FloodSteps : Tick(d) /\ UNCHANGED <<rlVars, cacheVars, keyVars, compVars, chkVars, concVars, srvVars>>

SpecFlood == InitServer /\ [][NextFlood]_vars


\* ------------------------------------------------------------------------
\* Clients asking for their own address
\* ------------------------------------------------------------------------
\* the X-Forwarded-For headers the proxy sends: one client, a second client
\* behind a further proxy, none, and one that names no address
MyIPForwarded ==
    { <<"10.0.0.1">>, <<" ", "10.0.0.2", ",", "172.16.0.1">>, <<>>, <<"unknown">> }

\* the proxy's connection comes in over IPv4 or over IPv6: net/http writes
\* the remote address as host:port with an IPv6 host in brackets
MyIPRemoteAddrs == { ProxyAddr, <<"[::1]", ":", "4711">> }

MyIPRequests ==
    { [ProxyRequest("/api/v1/my-ip", NoQuery, xff) EXCEPT !.remoteAddr = addr] :
         xff \in MyIPForwarded, addr \in MyIPRemoteAddrs }

MaxMyIP == 3

NextMyIP ==
    \/ \E req \in MyIPRequests, run \in Runs : Request(req, run, MaxMyIP)
    \/ \E d \in ServerSteps : Tick(d) /\ UNCHANGED <<rlVars, cacheVars, keyVars, compVars, chkVars, concVars, srvVars>>

SpecMyIP == InitServer /\ [][NextMyIP]_vars

\* ------------------------------------------------------------------------
\* One comprehensive check: the handler and its six goroutines
\* ------------------------------------------------------------------------
InitComprehensive ==
    /\ now = 0
    /\ ticks = 0
    /\ NewRateLimiter
    /\ NewCache
    /\ NoKey
    /\ NoComprehensive
    /\ NoChecker
    /\ NoConcurrency
    /\ NoServer

offComprehensive == <<clockVars, rlVars, cacheVars, keyVars, srvVars, chkVars, concVars>>

NextComprehensive ==
    \/ \E domain \in ComprehensiveDomains : Comprehensive(domain) /\ UNCHANGED offComprehensive
    \/ \E task \in ComprehensiveTasks, run \in Runs :
          CheckReturns(task, run) /\ UNCHANGED offComprehensive
    \/ \E task \in ComprehensiveTasks : Send(task) /\ UNCHANGED offComprehensive
    \/ Receive /\ UNCHANGED offComprehensive
    \/ Respond /\ UNCHANGED offComprehensive

SpecComprehensive == InitComprehensive /\ [][NextComprehensive]_vars

\* ------------------------------------------------------------------------
\* One comprehensive check whose checker calls all return: the network
\* answers, every goroutine that can take a step takes it in the end, and
\* so does the handler
\* ------------------------------------------------------------------------
NextComprehensiveFair ==
    \/ Comprehensive("a.example") /\ UNCHANGED offComprehensive
    \/ \E task \in ComprehensiveTasks : CheckReturns(task, NetUp) /\ UNCHANGED offComprehensive
    \/ \E task \in ComprehensiveTasks : Send(task) /\ UNCHANGED offComprehensive
    \/ Receive /\ UNCHANGED offComprehensive
    \/ Respond /\ UNCHANGED offComprehensive

\* a task's goroutine runs as long as one of them can: its checker call
\* returns, and its send goes through when the channel has room
TaskSteps ==
    \E task \in ComprehensiveTasks :
        (CheckReturns(task, NetUp) \/ Send(task)) /\ UNCHANGED offComprehensive

\* the handler's goroutine runs as long as it can
HandlerSteps == (Receive \/ Respond) /\ UNCHANGED offComprehensive

FairComprehensive == WF_vars(TaskSteps) /\ WF_vars(HandlerSteps)

SpecComprehensiveFair ==
    InitComprehensive /\ [][NextComprehensiveFair]_vars /\ FairComprehensive

\* ------------------------------------------------------------------------
\* The checkers called on their own, on every input, whatever the network
\* does
\* ------------------------------------------------------------------------
\* the checker returns its report
CheckerCall ==
    /\ chkIn.checker # ""
    /\ chkOut = Nil
    /\ chkOut' = Check(chkIn.checker, chkIn.input, chkIn.net)
    /\ UNCHANGED chkIn

\* the checkers that take a domain, an address or a URL
NetCheckers ==
    { "ssl", "http3", "dns", "ip", "web_settings", "email_config", "blocklist",
      "robots_txt", "sitemap", "og_image", "html_proxy", "ssl+web_settings" }

\* what they are asked about: a host, with a scheme and a path, a text that
\* is no URL, an address
CheckerInputs ==
    { <<"a.example">>, <<"https://", "a.example">>, <<"http://", "a.example", "/", "path">>,
      <<"a", " ", "b">>, <<"8.8.8.8">>, <<"https://", "8.8.8.8", "/">> }

\* the resolver: every subset of the lookups fails, with or without a CNAME
DNSNetworks ==
    { [NetworkUp EXCEPT !.resolves = S, !.cname = c] :
         S \in SUBSET LookupKinds, c \in {<<>>, <<"cdn.example.">>} }

\* the addresses of a host: none, IPv6 only, IPv6 and IPv4, IPv4 only
AddrLists ==
    { <<>>, <<"2001:db8::1">>, <<"2001:db8::1", "192.0.2.1", "192.0.2.2">>,
      <<"192.0.2.2", "192.0.2.1">> }

IPNetworks ==
    { [NetworkUp EXCEPT !.resolves = S, !.addrs = a, !.tcp = t] :
         S \in {LookupKinds, LookupKinds \ {"ip"}}, a \in AddrLists, t \in BOOLEAN }

\* the site: it answers or not, with or without a certificate and an HSTS
\* header, with a page or without
WebNetworks ==
    { [NetworkUp EXCEPT !.http = h, !.tls = h, !.cert = c, !.status = s, !.hsts = hd, !.body = b] :
         h \in BOOLEAN, c \in BOOLEAN, s \in {StatusOK, StatusNotFound},
         hd \in {<<>>, FullHSTS}, b \in {"ok", "unreadable"} }

\* HTTP/3: the request is answered over HTTP/3 or HTTP/2, or fails and the
\* QUIC dial decides
H3Networks ==
    { [NetworkUp EXCEPT !.h3 = p, !.quic = q] :
         p \in {"HTTP/3.0", "HTTP/2.0", ""}, q \in BOOLEAN }

\* the blocklist servers: some block, some do not answer
BlockNetworks ==
    { NetworkUp,
      [NetworkUp EXCEPT !.answers = [ip \in {"1.1.1.3"} |-> [err |-> FALSE, addrs |-> <<"146.112.61.106">>]]],
      [NetworkUp EXCEPT !.answers = [ip \in {"9.9.9.9", "1.1.1.3"} |-> [err |-> TRUE, addrs |-> <<>>]]] }

\* what a blocklist server does: no answer, the addresses of the site, a
\* block address alone, after or before another address, the address of a
\* server that is no block address
ServerAnswers ==
    { [err |-> TRUE, addrs |-> <<>>],
      [err |-> FALSE, addrs |-> <<"192.0.2.1">>],
      [err |-> FALSE, addrs |-> <<"146.112.61.106">>],
      [err |-> FALSE, addrs |-> <<"192.0.2.1", "77.88.8.7">>],
      [err |-> FALSE, addrs |-> <<"2001:db8::1", "8.8.8.8">>] }

\* the servers whose answers vary: the first of the table, one in the
\* middle, the last
VaryingServers == {"176.103.130.130", "1.1.1.3", "77.88.8.88"}

BlocklistNetworks ==
    { [NetworkUp EXCEPT !.answers = a] : a \in [VaryingServers -> ServerAnswers] }

Networks ==
    DNSNetworks \cup IPNetworks \cup WebNetworks \cup H3Networks \cup BlockNetworks
        \cup {NetworkDown}

\* Strict-Transport-Security headers: max-age in lower case and not, with a
\* value, without one, with one beyond the range of int, twice; the flags in
\* any case
MaxAges ==
    { <<>>,
      <<"max-age=", "3", "1", "5", "3", "6", "0", "0", "0">>,
      <<"max-age=", "0", "0", "6", "0", "0">>,
      <<"max-age=", "0">>,
      <<"max-age=">>,
      <<"max-age=", "x", "6">>,
      <<"max-age=", "x", "; ", "max-age=", "6", "0">>,
      <<"Max-Age=", "6", "0", "0">>,
      <<"max-age=", "9", "2", "2", "3", "3", "7", "2", "0", "3", "6", "8", "5", "4", "7",
        "7", "5", "8", "0", "7">>,
      <<"max-age=", "9", "2", "2", "3", "3", "7", "2", "0", "3", "6", "8", "5", "4", "7",
        "7", "5", "8", "0", "8">>,
      <<"max-age=", "1", "0", "0", "0", "0", "0", "0", "0", "0", "0", "0", "0", "0", "0",
        "0", "0", "0", "0", "0", "0">> }

SubDomainFlags == {<<>>, <<"includeSubDomains">>, <<"INCLUDESUBDOMAINS">>, <<"includeSub">>}

PreloadFlags == {<<>>, <<"preload">>, <<"Preload">>, <<"pre", "load">>}

\* the parts of a header joined by "; "
RECURSIVE Join(_)
Join(parts) ==
    IF Len(parts) = 0 THEN <<>>
    ELSE IF Head(parts) = <<>> THEN Join(Tail(parts))
    ELSE IF Join(Tail(parts)) = <<>> THEN Head(parts)
    ELSE Head(parts) \o <<"; ">> \o Join(Tail(parts))

Headers ==
    { Join(<<m, s, p>>) : m \in MaxAges, s \in SubDomainFlags, p \in PreloadFlags }
        \cup { Join(<<p, s, m>>) : m \in MaxAges, s \in SubDomainFlags, p \in PreloadFlags }

\* DMARC records: the version tag in any case, the policy, and the tags
\* that may follow it
DmarcVersions == {<<"v=DMARC1">>, <<"V=DMARC1">>}

DmarcPolicies == {<<"p=none">>, <<"p=quarantine">>, <<"p=reject">>}

DmarcTags ==
    { <<>>, <<"rua=mailto:d@a.example">>, <<"s", "p=none">>, <<"s", "p=quarantine">>,
      <<"s", "p=reject">>, <<"pct=50">> }

DmarcRecords ==
    { Join(<<v, p, t>>) : v \in DmarcVersions, p \in DmarcPolicies, t \in DmarcTags }

\* what LookupTXT of _dmarc.<domain> returns: an error, nothing, records
\* that are no DMARC record, one DMARC record alone or after another record
DmarcNetworks ==
    { [NetworkUp EXCEPT !.dmarc = [ok |-> FALSE, txt |-> <<>>]],
      [NetworkUp EXCEPT !.dmarc = [ok |-> TRUE, txt |-> <<>>]],
      [NetworkUp EXCEPT !.dmarc = [ok |-> TRUE, txt |-> <<<<"v=spf1", " ", "-all">>>>]] }
    \cup { [NetworkUp EXCEPT !.dmarc = [ok |-> TRUE, txt |-> <<r>>]] : r \in DmarcRecords }
    \cup { [NetworkUp EXCEPT !.dmarc = [ok |-> TRUE, txt |-> <<<<"google-site-verification=x">>, r>>]] :
              r \in DmarcRecords }

\* what the sitemap candidates answer: each of the eight requests gets no
\* response, 200 or 404
SitemapGets == [1..8 -> {0, StatusOK, StatusNotFound}]

\* the numbers of entries of the documents served
EntryCounts == {0, 1, 3, 9, 10, 11, 15}

\* the documents served: sitemaps and sitemap indexes of every size, well
\* formed or not, pages that are no sitemap, a <priority> that is a number
\* and one that is not
Documents ==
    { Document(w, r, t, n) : w \in BOOLEAN, r \in {"urlset", "sitemapindex", "html"},
                             t \in {"url", "sitemap"}, n \in EntryCounts }
        \cup { [URLSet(3) EXCEPT !.children[2].priority = p] : p \in {"0.5", "high"} }

\* the site as CheckSitemap sees it: every pattern of answers with the
\* sitemap of NetworkUp, and every document at the first or a later candidate
SitemapNetworks ==
    { [NetworkUp EXCEPT !.get = g] : g \in SitemapGets }
        \cup { [NetworkUp EXCEPT !.get = g, !.doc = d, !.body = b] :
                  g \in { [i \in 1..8 |-> StatusOK],
                          [i \in 1..8 |-> IF i = 4 THEN StatusOK ELSE StatusNotFound] },
                  d \in Documents, b \in {"ok", "unreadable"} }

\* lines of a robots.txt: groups, rules with and without a value, delays,
\* a comment, a line without ":", a sitemap whose value holds a ":"
RobotsLines ==
    { <<"User-agent", ":", " ", "a">>,
      <<"USER-AGENT", ":", "b">>,
      <<"Disallow", ":", " ", "/x">>,
      <<"Disallow", ":">>,
      <<" ", "Allow", " ", ":", " ", "/y", " ">>,
      <<"Crawl-delay", ":", " ", "5">>,
      <<"crawl-delay", ":", "10">>,
      <<"Crawl-delay", ":", " ">>,
      <<"#", " ", "Disallow", ":", " ", "/z">>,
      <<"Disallow", " ", "/w">>,
      <<"Sitemap", ":", " ", "https", ":", "//a.example/s.xml">>,
      <<>> }

\* the longest robots.txt served
MaxRobotsLines == 4

\* the files served
RobotsFiles == UNION { [1..n -> RobotsLines] : n \in 0..MaxRobotsLines }

RobotsNetworks == { [NetworkUp EXCEPT !.robots = f] : f \in RobotsFiles }

CheckerCalls ==
    [checker : NetCheckers, input : CheckerInputs, net : Networks]
        \cup [checker : {"hsts_header"}, input : Headers, net : {NetworkUp}]
        \cup [checker : {"dmarc"}, input : {<<"a.example">>}, net : DmarcNetworks]
        \cup [checker : {"sitemap"},
              input : {<<"a.example">>, <<"http://", "a.example", "/", "path">>},
              net : SitemapNetworks]
        \cup [checker : {"robots_txt"}, input : {<<"a.example">>}, net : RobotsNetworks]
        \cup [checker : {"blocklist"},
              input : {<<"a.example">>, <<"https://", "a.example">>},
              net : BlocklistNetworks]

InitCheckers ==
    /\ now = 0
    /\ ticks = 0
    /\ NewRateLimiter
    /\ NewCache
    /\ NoKey
    /\ NoComprehensive
    /\ NoServer
    /\ NoConcurrency
    /\ chkIn \in CheckerCalls
    /\ chkOut = Nil

offCheckers == <<clockVars, rlVars, cacheVars, keyVars, srvVars, compVars, concVars>>

NextCheckers == CheckerCall /\ UNCHANGED offCheckers

SpecCheckers == InitCheckers /\ [][NextCheckers]_vars

\* ------------------------------------------------------------------------
\* Requests that name their client in every way
\* ------------------------------------------------------------------------
\* X-Forwarded-For: absent, one address, a chain, a chain whose first hop is
\* no address, white space
ForwardedFors ==
    { <<>>, <<"10.0.0.1">>, <<" ", "10.0.0.2", ",", "172.16.0.1">>,
      <<"unknown", ",", "10.0.0.2">>, <<" ">> }

\* X-Real-IP and CF-Connecting-IP: absent, an address, no address
RealIPs == {<<>>, <<"10.9.9.9", " ">>, <<"unknown">>}

ConnectingIPs == {<<>>, <<" ", "8.8.8.8">>, <<"unknown">>}

\* the peer of the connection, with and without a port
RemoteAddrs == {ProxyAddr, <<"172.16.0.1">>}

ClientRequests ==
    { [ ProxyRequest(p, [NoQuery EXCEPT !.domain = "a.example"], xff)
          EXCEPT !.xRealIP = real, !.cfConnectingIP = cf, !.remoteAddr = addr ] :
         p \in {"/api/v1/my-ip", "/api/v1/dns"}, xff \in ForwardedFors, real \in RealIPs,
         cf \in ConnectingIPs, addr \in RemoteAddrs }

\* the network is up: what it does makes no difference to whom a request is
\* counted for
NextClient ==
    \E req \in ClientRequests : Request(req, NetUp, MaxRequests)

SpecClient == InitServer /\ [][NextClient]_vars

\* ------------------------------------------------------------------------
\* Several requests of one client for one route reach the rate limiter at
\* the same time
\* ------------------------------------------------------------------------
\* the most goroutines in allow at a time
MaxGoroutines == 3

\* the client and the route of the calls
ConcurrentIP == "10.0.0.1"

ConcurrentRoute == "/api/v1/comprehensive"

\* what the bucket of the key holds when the calls begin, in token units:
\* nothing, half a token, one, one and a half, two, nearly all, all
HeldTokens ==
    { 0, Float(1) \div 2, Float(1), Float(1) + Float(1) \div 2, Float(2),
      Float(RouteRpm(ConcurrentRoute)) - 1, Float(RouteRpm(ConcurrentRoute)) }

\* a bucket that holds the given tokens, refilled now
HeldBucket(held) == [tokenBucket(RouteRpm(ConcurrentRoute), 0) EXCEPT !.tokens = held]

InitConcurrent ==
    /\ now = 0
    /\ ticks = 0
    /\ rlLast = NoCall
    /\ rlHist = EmptyMap
    /\ rlCalls = 0
    /\ NewCache
    /\ NoKey
    /\ NoServer
    /\ NoComprehensive
    /\ NoChecker
    /\ mu = 0
    /\ cchMu = [writer |-> 0, readers |-> {}]
    /\ cacheCalls = <<>>
    /\ \E n \in 1..MaxGoroutines :
          \/ /\ buckets = EmptyMap
             /\ allowCalls = [g \in 1..n |->
                                AllowCall0(ConcurrentIP, ConcurrentRoute,
                                           Float(RouteRpm(ConcurrentRoute)))]
          \/ \E held \in HeldTokens :
                /\ buckets = RLKey(ConcurrentIP, ConcurrentRoute) :> HeldBucket(held)
                /\ allowCalls = [g \in 1..n |->
                                   AllowCall0(ConcurrentIP, ConcurrentRoute, held)]

offConcurrent ==
    <<ticks, rlLast, rlHist, rlCalls, cacheVars, keyVars, srvVars, compVars, chkVars,
      cchMu, cacheCalls>>

\* one tick, ten seconds
ConcurrentSteps == {1, Seconds(10)}

NextConcurrent ==
    \/ \E g \in DOMAIN allowCalls : AllowLock(g) /\ UNCHANGED offConcurrent
    \/ \E g \in DOMAIN allowCalls : AllowLookup(g) /\ UNCHANGED offConcurrent
    \/ \E g \in DOMAIN allowCalls : AllowRefill(g) /\ UNCHANGED offConcurrent
    \/ \E g \in DOMAIN allowCalls : AllowCheck(g) /\ UNCHANGED offConcurrent
    \/ \E g \in DOMAIN allowCalls : AllowDeduct(g) /\ UNCHANGED offConcurrent
    \/ \E g \in DOMAIN allowCalls : AllowUnlock(g) /\ UNCHANGED offConcurrent
    \/ \E d \in ConcurrentSteps :
          Tick(d) /\ UNCHANGED <<rlVars, cacheVars, keyVars, srvVars, compVars, chkVars, concVars>>

SpecConcurrent == InitConcurrent /\ [][NextConcurrent]_vars

\* ------------------------------------------------------------------------
\* Several requests for one check of one domain reach the cache at the
\* same time
\* ------------------------------------------------------------------------
\* the key of the calls and the TTL of its route
ConcurrentKey == "/api/v1/my-ip?ip=10.0.0.1"

ConcurrentTTL == routeTTL["/api/v1/my-ip"]

\* the calls of a goroutine: Get, or Set of the report it computed
ConcurrentCacheCalls ==
    { CacheCall0("get", ConcurrentKey, Nil, 0),
      CacheCall0("set", ConcurrentKey, [report |-> "fresh"], ConcurrentTTL) }

InitConcurrentCache ==
    /\ now = 0
    /\ ticks = 0
    /\ NewRateLimiter
    /\ cacheLast = NoCacheCall
    /\ cacheSets = EmptyMap
    /\ NoKey
    /\ NoServer
    /\ NoComprehensive
    /\ NoChecker
    /\ mu = 0
    /\ allowCalls = <<>>
    /\ cchMu = [writer |-> 0, readers |-> {}]
    /\ items \in {EmptyMap, ConcurrentKey :> cacheItem([report |-> "stored"], ConcurrentTTL)}
    /\ \E n \in 1..MaxGoroutines : cacheCalls \in [1..n -> ConcurrentCacheCalls]

offConcurrentCache ==
    <<ticks, rlVars, cacheLast, cacheSets, keyVars, srvVars, compVars, chkVars, mu, allowCalls>>

\* thirty seconds, one minute
ConcurrentCacheSteps == {Seconds(30), Minutes(1)}

NextConcurrentCache ==
    \/ \E g \in DOMAIN cacheCalls : GetRLock(g) /\ UNCHANGED offConcurrentCache
    \/ \E g \in DOMAIN cacheCalls : GetRead(g) /\ UNCHANGED offConcurrentCache
    \/ \E g \in DOMAIN cacheCalls : GetRUnlock(g) /\ UNCHANGED offConcurrentCache
    \/ \E g \in DOMAIN cacheCalls : GetExpiry(g) /\ UNCHANGED offConcurrentCache
    \/ \E g \in DOMAIN cacheCalls : GetLock(g) /\ UNCHANGED offConcurrentCache
    \/ \E g \in DOMAIN cacheCalls : GetDelete(g) /\ UNCHANGED offConcurrentCache
    \/ \E g \in DOMAIN cacheCalls : GetUnlock(g) /\ UNCHANGED offConcurrentCache
    \/ \E g \in DOMAIN cacheCalls : SetLock(g) /\ UNCHANGED offConcurrentCache
    \/ \E g \in DOMAIN cacheCalls : SetStore(g) /\ UNCHANGED offConcurrentCache
    \/ \E g \in DOMAIN cacheCalls : SetUnlock(g) /\ UNCHANGED offConcurrentCache
    \/ \E d \in ConcurrentCacheSteps :
          Tick(d) /\ UNCHANGED <<rlVars, cacheVars, keyVars, srvVars, compVars, chkVars, concVars>>

SpecConcurrentCache == InitConcurrentCache /\ [][NextConcurrentCache]_vars
\* ========================================================================
\* Claims
\* ========================================================================

\* C1 (as stated): on a freshly created bucket of capacity C, when C+1 calls
\* of allow are made within 60/C seconds (the window's end included), the
\* last call, number C+1, returns false.
C1_BurstWithinWindowRejected ==
    ( /\ rlLast.called
      /\ rlLast.n = rlLast.capacity + 1
      /\ (rlLast.at - rlLast.created) * rlLast.capacity <= TokenScale )
    => ~rlLast.ok

\* C1 (amended): on a freshly created bucket of capacity C, when C+1 calls
\* of allow are made within strictly less than 60/C seconds, the last
\* call, number C+1, returns false.
C1_BurstInsideWindowRejected ==
    ( /\ rlLast.called
      /\ rlLast.n = rlLast.capacity + 1
      /\ (rlLast.at - rlLast.created) * rlLast.capacity < TokenScale )
    => ~rlLast.ok

\* C1 witness: call number C+1 on a bucket, made after time has passed but
\* less than 60/C seconds after the first call, was rejected.
C1_Witness ==
    /\ rlLast.called
    /\ rlLast.n = rlLast.capacity + 1
    /\ rlLast.at > rlLast.created
    /\ (rlLast.at - rlLast.created) * rlLast.capacity < TokenScale
    /\ ~rlLast.ok

\* C2: after a call of allow that returned false, the next call on the same
\* key, made at least 60/C seconds later, returns true.
C2_RefillAdmits ==
    ( /\ rlLast.called
      /\ rlLast.hadPrev
      /\ ~rlLast.prevOk
      /\ (rlLast.at - rlLast.prevAt) * rlLast.capacity >= TokenScale )
    => rlLast.ok

\* C2 witness: a call was rejected and the next call on that key, at least
\* 60/C seconds later, was admitted.
C2_Witness ==
    /\ rlLast.called
    /\ rlLast.hadPrev
    /\ ~rlLast.prevOk
    /\ (rlLast.at - rlLast.prevAt) * rlLast.capacity >= TokenScale
    /\ rlLast.ok

\* C3 (as stated): allow refills the bucket by elapsed*capacity/60 tokens,
\* returns true exactly when the refilled count is >= 1 and then takes one
\* token; when it returns false the count stays at the refilled value.
C3_RefillThenDeduct ==
    rlLast.called =>
        LET refilled == rlLast.before + rlLast.elapsed * rlLast.capacity
        IN  /\ rlLast.ok <=> (refilled >= Float(1))
            /\ rlLast.after = IF rlLast.ok THEN refilled - Float(1) ELSE refilled

\* C3 (amended): allow refills the bucket by elapsed*capacity/60 tokens,
\* capped at the capacity, returns true exactly when the refilled count is
\* >= 1 and then takes exactly one token; when it returns false the count
\* stays at the refilled value.
C3_CappedRefillThenDeduct ==
    rlLast.called =>
        LET uncapped == rlLast.before + rlLast.elapsed * rlLast.capacity
            refilled == IF uncapped > Float(rlLast.capacity)
                        THEN Float(rlLast.capacity) ELSE uncapped
        IN  /\ rlLast.ok <=> (refilled >= Float(1))
            /\ rlLast.after = IF rlLast.ok THEN refilled - Float(1) ELSE refilled

\* C3 witness: a call on an existing bucket after time has passed was
\* rejected and left the bucket at its refilled, positive count.
C3_Witness ==
    /\ rlLast.called
    /\ ~rlLast.fresh
    /\ rlLast.elapsed > 0
    /\ ~rlLast.ok
    /\ rlLast.after = rlLast.before + rlLast.elapsed * rlLast.capacity
    /\ rlLast.after > 0

\* C4: every bucket holds between 0 and capacity tokens, where capacity is
\* the requests-per-minute limit of the bucket's route.
C4_TokensWithinCapacity ==
    /\ DOMAIN buckets \subseteq { RLKey(k[1], k[2]) : k \in RLKeys }
    /\ \A k \in RLKeys :
          RLKey(k[1], k[2]) \in DOMAIN buckets =>
              LET b == buckets[RLKey(k[1], k[2])]
              IN  /\ b.capacity = RouteRpm(k[2])
                  /\ 0 <= b.tokens
                  /\ b.tokens <= Float(b.capacity)

\* C4 witness: a bucket that was drained below one token has been refilled
\* up to its capacity by a later call made after a long pause.
C4_Witness ==
    /\ rlLast.called
    /\ rlLast.before < Float(1)
    /\ rlLast.elapsed > 0
    /\ rlLast.before + rlLast.elapsed * rlLast.capacity > Float(rlLast.capacity)
    /\ buckets[rlLast.key].tokens = Float(rlLast.capacity - 1)

\* the response is a failure envelope: an APIResponse with success = false
\* and an error text
FailureEnvelope(resp) ==
    /\ resp.body = "APIResponse"
    /\ ~resp.success
    /\ resp.error # ""
    /\ resp.data = Nil

\* during the latest request no handler ran, no checker was invoked and the
\* cache was neither read nor written
NothingRan ==
    /\ srvLast.handler = ""
    /\ srvLast.checks = 0
    /\ srvLast.gets = 0
    /\ srvLast.sets = 0
    /\ srvLast.kept

\* C5: when the rate limiter rejects a request to a route of /api/v1, the
\* response is the "Too many requests" failure envelope with status 429, no
\* route handler and no checker runs for the request, and the response cache
\* is neither read nor written.
C5_RejectedNeverHandled ==
    (srvLast.called /\ srvLast.limited /\ ~srvLast.allowed) =>
        /\ FailureEnvelope(srvLast.resp)
        /\ srvLast.resp.status = 429
        /\ srvLast.resp.error = "Too many requests"
        /\ NothingRan

\* C5 witness: a client that has spent the six tokens of its comprehensive
\* bucket asks again and is rejected, while the cache of the earlier
\* requests stays as it is.
C5_Witness ==
    /\ srvLast.called
    /\ srvLast.req.path = "/api/v1/comprehensive"
    /\ srvLast.limited
    /\ ~srvLast.allowed
    /\ srvLast.resp.status = 429
    /\ nreq > 6

\* the environment selects production mode: GIN_MODE is not "debug"
Production == Str(TrimSpace(env.GIN_MODE)) # "debug"

\* the latest request carries X-Internal-Proxy: true and a secret, in
\* X-API-Secret or else as the Authorization Bearer token, that equals the
\* configured API_SECRET_KEY
Trusted ==
    LET req    == srvLast.req
        bearer == Len(req.authorization) > 0 /\ Head(req.authorization) = "Bearer "
        secret == IF Str(req.xAPISecret) # "" THEN Str(req.xAPISecret)
                  ELSE IF bearer THEN Str(Tail(req.authorization))
                  ELSE ""
    IN  /\ Str(req.xInternalProxy) = "true"
        /\ secret # ""
        /\ secret = Str(TrimSpace(env.API_SECRET_KEY))

\* C6: in production mode a request to a path other than /metrics reaches a
\* route handler only if it carries X-Internal-Proxy = "true" and a secret
\* equal to the configured API_SECRET_KEY; every other request is aborted
\* with a failure envelope (403 or 500), and for it no handler and no checker
\* runs, the rate limiter is not asked, and the cache is neither read nor
\* written.
C6_OnlyTrustedReachHandlers ==
    (srvLast.called /\ Production /\ srvLast.req.path # "/metrics" /\ ~Trusted) =>
        /\ FailureEnvelope(srvLast.resp)
        /\ srvLast.resp.status \in {403, 500}
        /\ ~srvLast.authNext
        /\ ~srvLast.limited
        /\ NothingRan

\* C6 witness: in production, after a trusted request has been answered by a
\* handler, a request that carries the right secret but not the proxy's
\* header is aborted with 403.
C6_Witness ==
    /\ Production
    /\ srvSeen # EmptyMap
    /\ srvLast.called
    /\ srvLast.req.path \in DOMAIN ApiRoutes
    /\ srvLast.req.xAPISecret = TrimSpace(env.API_SECRET_KEY)
    /\ srvLast.req.xAPISecret # <<>>
    /\ srvLast.req.xInternalProxy # <<"true">>
    /\ srvLast.resp.status = 403
    /\ srvLast.handler = ""

\* the latest request was answered by the handler of a check route that has
\* a TTL
CachedCheckAnswered ==
    /\ srvLast.called
    /\ srvLast.handler # ""
    /\ srvLast.handler # "handleHealth"
    /\ srvLast.resp.status = 200
    /\ srvLast.req.path \in DOMAIN routeTTL

C8_GetHonoursExpiry ==
    cacheLast.op = "get" =>
        /\ ~cacheLast.had => (~cacheLast.found /\ cacheLast.value = Nil)
        /\ (cacheLast.had /\ cacheLast.at > cacheLast.expiry) =>
              (~cacheLast.found /\ cacheLast.value = Nil /\ ~cacheLast.present)
        /\ (cacheLast.had /\ cacheLast.at <= cacheLast.expiry) =>
              ( /\ cacheLast.found
                /\ cacheLast.present
                /\ cacheLast.key \in DOMAIN cacheSets
                /\ cacheLast.value = cacheSets[cacheLast.key] )

\* C8 witness: Get found an entry whose expiry had passed, reported not
\* found and left the map without it.
C8_Witness ==
    /\ cacheLast.op = "get"
    /\ cacheLast.had
    /\ cacheLast.at > cacheLast.expiry
    /\ ~cacheLast.found
    /\ cacheLast.key \notin DOMAIN items

\* C9: for the same route and the same parameter map, two calls of cacheKey
\* return the same string, whatever the order the map is iterated in.
C9_CacheKeyDeterministic ==
    Len(keyOut) = 2 => keyOut[1] = keyOut[2]


\* the handlers that require a query parameter
ParamHandlers ==
    { ApiRoutes[p] : p \in DOMAIN ApiRoutes } \ {"handleHealth", "handleMyIP"}

\* the required parameter of the handler is missing from the query
RequiredMissing(handler, query) ==
    CASE handler = "handleIP"        -> query.ip = "" /\ query.domain = ""
      [] handler = "handleOGImage"   -> query.url = "" /\ query.domain = ""
      [] handler = "handleHTMLProxy" -> query.url = ""
      [] OTHER                       -> query.domain = ""

\* C10: for every handler with a required query parameter, a request that
\* omits it gets a 400 failure envelope with an error text, and during the
\* request no checker is invoked and the cache is neither read nor written.
C10_MissingParameterRejected ==
    ( /\ srvLast.called
      /\ srvLast.handler \in ParamHandlers
      /\ RequiredMissing(srvLast.handler, srvLast.req.query) ) =>
        /\ FailureEnvelope(srvLast.resp)
        /\ srvLast.resp.status = 400
        /\ srvLast.checks = 0
        /\ srvLast.gets = 0
        /\ srvLast.sets = 0
        /\ srvLast.kept

\* C10 witness: after a check has filled the cache, the certificate check
\* asked without a domain answers 400 and runs nothing.
C10_Witness ==
    /\ srvLast.called
    /\ srvLast.handler = "handleSSL"
    /\ srvLast.req.query.domain = ""
    /\ srvLast.resp.status = 400
    /\ srvLast.resp.error = "Domain parameter is required"
    /\ srvLast.checks = 0
    /\ DOMAIN items # {}

\* the handler has answered a comprehensive check with its results
ComprehensiveAnswered == agg.pc = "done" /\ agg.resp.status = StatusOK

\* C11: whatever checks fail, the data map the comprehensive handler returns
\* has exactly the keys ssl, http3, dns, web_settings, email_config,
\* robots_txt, sitemap and _meta, and each of the seven check keys was
\* written exactly once: never twice while the results come in, and once
\* when the handler answers.
C11_AggregatorComplete ==
    /\ \A name \in ResultNames : agg.writes[name] <= 1
    /\ ComprehensiveAnswered =>
          /\ DOMAIN agg.resp.data = ResultNames \cup {"_meta"}
          /\ \A name \in ResultNames : agg.writes[name] = 1

\* a comprehensive check answered although the combined check and another
\* one failed
C11_Witness ==
    /\ ComprehensiveAnswered
    /\ agg.resp.data["ssl"].error # ""
    /\ agg.resp.data["sitemap"].error # ""
    /\ agg.resp.data["robots_txt"].error = ""

\* C12: the comprehensive handler answers only after it has received exactly
\* 7 results from resultChan, that is after all six goroutines have finished
\* their checker call and sent what they had to send, the combined one both
\* ssl and web_settings; no check is still running when it answers, in
\* whatever order the goroutines finish.
C12_AnswersAfterSevenResults ==
    ComprehensiveAnswered =>
        /\ agg.i = 7
        /\ agg.running = {}
        /\ \A task \in ComprehensiveTasks : goroutines[task].pc = "done"
        /\ resultChan = <<>>
        /\ agg.writes["ssl"] = 1 /\ agg.writes["web_settings"] = 1

\* answered after a slow check: one check took longer than another, and the
\* total is the time of the slowest
C12_Witness ==
    /\ ComprehensiveAnswered
    /\ agg.resp.data["_meta"].timings["http3"] = 0
    /\ agg.resp.data["_meta"].timings["dns"] = Milliseconds(NetDown.dur)
    /\ agg.resp.data["_meta"].total_ms = Milliseconds(NetDown.dur)

\* the error field of a report, "" when it has none
ErrorOf(report) == IF "error" \in DOMAIN report THEN report.error ELSE ""

\* the reports in the data of a response: those of the seven checks for the
\* comprehensive check, the data itself for any other
ReportsOf(data) ==
    IF "_meta" \in DOMAIN data THEN {data[name] : name \in DOMAIN data \ {"_meta"}}
    ELSE {data}

\* C13: when the network fails inside a checker that an admitted request
\* with its required parameter runs, the failure is captured in the error
\* field of the report, and the response is still 200 with success = true.
C13_UpstreamFailureInErrorField ==
    srvLast.called /\ srvLast.failed =>
        /\ srvLast.resp.status = StatusOK
        /\ srvLast.resp.success
        /\ \A report \in ReportsOf(srvLast.resp.data) : ErrorOf(report) # ""

\* a call of a checker that returns one report, and has returned it
Returned(checkers) == chkIn.checker \in checkers /\ chkOut # Nil

\* the checkers whose report is identified by the domain they were given
DomainCheckers ==
    {"ssl", "http3", "dns", "web_settings", "email_config", "blocklist", "robots_txt", "sitemap"}

\* C14: every report a checker returns has its identifying field (domain,
\* input or url) populated, on every return path, the failure paths
\* included; so have both reports of CheckSSLAndWebSettings.
C14_IdentifyingFieldPopulated ==
    /\ Returned(DomainCheckers) => chkOut.domain # ""
    /\ Returned({"ip"}) => chkOut.input # ""
    /\ Returned({"og_image"}) => chkOut.url # ""
    /\ Returned({"ssl+web_settings"}) =>
          chkOut.SSL.domain # "" /\ chkOut.WebSettings.domain # ""

\* C15: CheckSSLAndWebSettings: when the one request fails before it is
\* completed, the SSL report and the WebSettings report carry the same
\* non-empty error; when it succeeds and the response has no peer
\* certificate, only the SSL report carries an error, and the WebSettings
\* report has an empty error and its status code and headers populated.
C15_CombinedErrors ==
    Returned({"ssl+web_settings"}) =>
        /\ ~ParsesAsURL(WithProtocol(chkIn.input)) \/ ~chkIn.net.http =>
              /\ chkOut.SSL.error # ""
              /\ chkOut.SSL.error = chkOut.WebSettings.error
        /\ ParsesAsURL(WithProtocol(chkIn.input)) /\ chkIn.net.http /\ ~chkIn.net.cert =>
              /\ chkOut.SSL.error # ""
              /\ chkOut.WebSettings.error = ""
              /\ chkOut.WebSettings.status_code = chkIn.net.status
              /\ chkOut.WebSettings.headers = ResponseHeaders(chkIn.net)
              /\ DOMAIN chkOut.WebSettings.headers # {}

\* the request failed on the way: both reports say so
C15_Witness ==
    /\ Returned({"ssl+web_settings"})
    /\ ParsesAsURL(WithProtocol(chkIn.input))
    /\ ~chkIn.net.http
    /\ chkOut.SSL.error = chkOut.WebSettings.error
    /\ chkOut.SSL.error # ""

\* the response came without a certificate: the SSL report alone has an error
C15_WitnessNoCertificate ==
    /\ Returned({"ssl+web_settings"})
    /\ chkIn.net.http /\ ~chkIn.net.cert
    /\ chkOut.SSL.error = "No TLS certificate found"
    /\ chkOut.WebSettings.error = ""
    /\ chkOut.WebSettings.status_code = StatusNotFound

\* a header value that is a valid IP address once the white space around it
\* is removed
HoldsIP(value) == Str(TrimSpace(value)) \in IPLiterals

\* the address a request is to be counted for: the first hop of
\* X-Forwarded-For, else X-Real-IP, else CF-Connecting-IP, each if it is a
\* valid IP, else the peer of the socket without its port
ClientOf(req) ==
    LET firstHop == FirstField(req.xForwardedFor, ",")
        colon    == LastIndex(req.remoteAddr, ":")
    IN  CASE HoldsIP(firstHop)           -> Str(TrimSpace(firstHop))
          [] ~HoldsIP(firstHop) /\ HoldsIP(req.xRealIP) -> Str(TrimSpace(req.xRealIP))
          [] ~HoldsIP(firstHop) /\ ~HoldsIP(req.xRealIP) /\ HoldsIP(req.cfConnectingIP)
                                         -> Str(TrimSpace(req.cfConnectingIP))
          [] OTHER -> Str(IF colon = 0 THEN req.remoteAddr
                          ELSE SubSeq(req.remoteAddr, 1, colon - 1))

\* C16: getRealClientIP returns the first hop of X-Forwarded-For when it is
\* a valid IP, otherwise X-Real-IP when valid, otherwise CF-Connecting-IP
\* when valid, and the peer address of the socket only when none of the
\* three holds a valid IP; the rate limiter's bucket is keyed by that
\* address and the my-ip check reports it.
C16_RealClientIP ==
    srvLast.called =>
        /\ getRealClientIP(srvLast.req) = ClientOf(srvLast.req)
        /\ srvLast.limited =>
              /\ RLKey(ClientOf(srvLast.req), srvLast.req.path) \in DOMAIN buckets
              /\ Cardinality(DOMAIN buckets) <= nreq
        /\ srvLast.handler = "handleMyIP" /\ srvLast.resp.status = StatusOK =>
              /\ srvLast.resp.data.ip = ClientOf(srvLast.req)
              /\ srvLast.resp.data.input = "Your IP: " \o ClientOf(srvLast.req)

\* a my-ip request whose X-Forwarded-For starts with no address and whose
\* X-Real-IP holds one: it is counted and answered for the X-Real-IP
C16_Witness ==
    /\ srvLast.called
    /\ srvLast.handler = "handleMyIP"
    /\ srvLast.req.xForwardedFor = <<"unknown", ",", "10.0.0.2">>
    /\ srvLast.resp.status = StatusOK
    /\ srvLast.resp.data.ip = "10.9.9.9"
    /\ "10.9.9.9|/api/v1/my-ip" \in DOMAIN buckets

\* the records the resolver has for a lookup, as CheckDNS reports them
Resolved(kind, net) ==
    CASE kind = "mx"  -> [ i \in 1..Len(net.mx) |->
                             net.mx[i].Host \o " (priority: " \o ToString(net.mx[i].Pref) \o ")" ]
      [] kind = "txt" -> [i \in 1..Len(net.txt) |-> Str(net.txt[i])]
      [] kind = "ns"  -> net.ns
      [] kind = "cname" -> IF net.cname = <<>> THEN <<>> ELSE <<Str(net.cname)>>

\* C17: CheckDNS: whatever subset of the lookups (A/AAAA, CNAME, MX, TXT,
\* NS) fails, the error field is unset whenever at least one of them
\* resolves, the fields of a failed lookup are empty, and every other
\* lookup is still made and its records reported.
C17_PartialResolution ==
    Returned({"dns"}) =>
        /\ chkIn.net.resolves # {} => chkOut.error = ""
        /\ "ip" \notin chkIn.net.resolves => chkOut.ipv4 = <<>> /\ chkOut.ipv6 = <<>>
        /\ "ip" \in chkIn.net.resolves =>
              /\ Range(chkOut.ipv4) \cup Range(chkOut.ipv6) = Range(chkIn.net.addrs)
              /\ \A i \in 1..Len(chkOut.ipv4) : To4(chkOut.ipv4[i])
              /\ \A i \in 1..Len(chkOut.ipv6) : ~To4(chkOut.ipv6[i])
        /\ \A kind \in {"cname", "mx", "txt", "ns"} :
              chkOut[kind] = IF kind \in chkIn.net.resolves THEN Resolved(kind, chkIn.net)
                             ELSE <<>>

\* the MX lookup alone failed: the other records are reported, without error
C17_Witness ==
    /\ Returned({"dns"})
    /\ chkIn.net.resolves = LookupKinds \ {"mx"}
    /\ chkIn.net.cname # <<>>
    /\ chkOut.error = ""
    /\ chkOut.mx = <<>>
    /\ chkOut.ns # <<>> /\ chkOut.txt # <<>> /\ chkOut.cname # <<>> /\ chkOut.ipv4 # <<>>

\* the IPv4 addresses among those a host resolves to, in the resolver's order
IPv4Of(addrs) == SelectSeq(addrs, To4)

\* C18: CheckIP: for an input I that parses as a literal IP the report has
\* is_domain = false and ip = I; for a hostname that resolves to at least
\* one IPv4 address it has is_domain = true and ip is the first IPv4 address
\* in resolved_ips.
C18_LiteralOrResolved ==
    Returned({"ip"}) =>
        /\ ParseIP(Str(chkIn.input)) =>
              ~chkOut.is_domain /\ chkOut.ip = Str(chkIn.input)
        /\ ( /\ ~ParseIP(Str(CleanDomain(chkIn.input)))
             /\ "ip" \in chkIn.net.resolves
             /\ IPv4Of(chkIn.net.addrs) # <<>> ) =>
              /\ chkOut.is_domain
              /\ chkOut.resolved_ips = IPv4Of(chkIn.net.addrs)
              /\ chkOut.ip = chkOut.resolved_ips[1]
              /\ chkOut.error = ""

\* a hostname with an IPv6 and two IPv4 addresses: the first IPv4 one is reported
C18_Witness ==
    /\ Returned({"ip"})
    /\ chkIn.input = <<"https://", "a.example">>
    /\ chkIn.net.addrs = <<"2001:db8::1", "192.0.2.1", "192.0.2.2">>
    /\ chkOut.is_domain
    /\ chkOut.ip = "192.0.2.1"

\* a literal IP: reported as it is, whether or not it can be reached
C18_WitnessLiteral ==
    /\ Returned({"ip"})
    /\ chkIn.input = <<"8.8.8.8">>
    /\ ~chkIn.net.tcp
    /\ ~chkOut.is_domain
    /\ chkOut.ip = "8.8.8.8"

\* the policies a record names in a p= tag of its own: a tag starts the
\* record or follows a separator
PolicyTags(record) ==
    { X \in {"none", "quarantine", "reject"} :
         \E i \in 1..Len(record) :
            /\ record[i] = "p=" \o X
            /\ i = 1 \/ record[i - 1] = "; " }

\* C19: CheckDMARC: for a TXT record at _dmarc.<domain> that starts with
\* v=DMARC1 and whose p= tag is none, quarantine or reject, whatever other
\* tags (rua=, sp=, pct=) it has, the report has configured = true and that
\* policy; when no DMARC record is found, configured = false.
C19_DmarcPolicy ==
    Returned({"dmarc"}) =>
        LET txt == chkIn.net.dmarc.txt
            found == { i \in 1..Len(txt) : chkIn.net.dmarc.ok /\ Head(txt[i]) = "v=DMARC1" }
        IN  /\ \A i \in found : \A X \in PolicyTags(txt[i]) :
                  chkOut.configured /\ chkOut.policy = X
            /\ found = {} /\ ~(\E i \in 1..Len(txt) : chkIn.net.dmarc.ok /\ Head(txt[i]) = "V=DMARC1")
                  => ~chkOut.configured

\* the digits that follow the first max-age= that has digits after it; <<>>
\* when no max-age= of the header has
MaxAgeDigits(header) ==
    LET at == { i \in 1..(Len(header) - 1) : header[i] = "max-age=" /\ header[i + 1] \in Digits }
    IN  IF at = {} THEN <<>>
        ELSE LET first == CHOOSE i \in at : \A j \in at : i <= j
                 last  == CHOOSE k \in first..Len(header) :
                             /\ \A j \in (first + 1)..k : header[j] \in Digits
                             /\ k = Len(header) \/ header[k + 1] \notin Digits
             IN  SubSeq(header, first + 1, last)

\* a number an int can hold: at most as many digits as math.MaxInt64 has
\* and not beyond it
FitsInt(n) == Len(n) < Len(MaxInt) \/ (Len(n) = Len(MaxInt) /\ DigitsLeq(n, MaxInt))

\* C20: parseHSTSHeader: an empty header yields enabled = false with
\* max_age = 0, include_subdomains = false and preload = false; any other
\* header yields enabled = true, max_age the number written after max-age=
\* (0 when there is none or it is malformed), and include_subdomains and
\* preload true exactly when the header contains includesubdomains and
\* preload, in any case: max-age=31536000; includeSubDomains; preload
\* yields 31536000, true, true.
C20_ParseHSTSHeader ==
    Returned({"hsts_header"}) =>
        LET header == chkIn.input
            digits == Canonical(MaxAgeDigits(header))
        IN  /\ header = <<>> =>
                  /\ ~chkOut.enabled
                  /\ chkOut.max_age = <<"0">>
                  /\ ~chkOut.include_subdomains
                  /\ ~chkOut.preload
            /\ header # <<>> =>
                  /\ chkOut.enabled
                  /\ chkOut.max_age = IF digits # <<>> /\ FitsInt(digits) THEN digits ELSE <<"0">>
                  /\ chkOut.include_subdomains <=>
                        \E i \in 1..Len(header) :
                           header[i] \in {"includesubdomains", "includeSubDomains",
                                          "IncludeSubdomains", "INCLUDESUBDOMAINS"}
                  /\ chkOut.preload <=>
                        \E i \in 1..Len(header) : header[i] \in {"preload", "Preload", "PRELOAD"}
            /\ header = FullHSTS =>
                  /\ chkOut.max_age = <<"3", "1", "5", "3", "6", "0", "0", "0">>
                  /\ chkOut.include_subdomains
                  /\ chkOut.preload

\* the header of the example with its flags in capitals
C20_Witness ==
    /\ Returned({"hsts_header"})
    /\ chkIn.input = << "max-age=", "3", "1", "5", "3", "6", "0", "0", "0", "; ",
                        "INCLUDESUBDOMAINS", "; ", "Preload" >>
    /\ chkOut.enabled
    /\ chkOut.max_age = <<"3", "1", "5", "3", "6", "0", "0", "0">>
    /\ chkOut.include_subdomains
    /\ chkOut.preload

\* ------------------------------------------------------------------------
\* Sitemaps, robots.txt, blocklists
\* ------------------------------------------------------------------------
\* the candidates of the call that were answered 200, by their place in the
\* order /sitemap.xml, /sitemap_index.xml, /sitemap-index.xml, /sitemaps.xml,
\* each under https then http
Answered200 ==
    {k \in 1..8 : SitemapGet(CleanDomain(chkIn.input), k, chkIn.net) = StatusOK}

\* the body of the sitemap found is read and holds a well-formed document
\* with the given root whose n >= 1 children are all the given entries
WellFormed(root, tag) ==
    /\ Returned({"sitemap"})
    /\ Answered200 # {}
    /\ chkIn.net.body = "ok"
    /\ chkIn.net.doc.wellformed
    /\ chkIn.net.doc.root = root
    /\ Len(chkIn.net.doc.children) >= 1
    /\ \A i \in 1..Len(chkIn.net.doc.children) :
          /\ chkIn.net.doc.children[i].tag = tag
          /\ chkIn.net.doc.children[i].priority \in {"", "0.5"}

\* C21: sitemap parsing in CheckSitemap: a well-formed urlset with n >= 1
\* url entries yields is_sitemap_index = false, url_count = n and
\* sample_urls holding the first min(n, 10) entries in document order (15
\* entries give url_count = 15 and exactly 10 samples); a well-formed
\* sitemapindex with m >= 1 entries yields is_sitemap_index = true,
\* url_count = m and sub_sitemaps of length m.
C21_SitemapParsing ==
    LET children == chkIn.net.doc.children
        n        == Len(children)
    IN  /\ WellFormed("urlset", "url") =>
              /\ ~chkOut.is_sitemap_index
              /\ chkOut.url_count = n
              /\ Len(chkOut.sample_urls) = (IF n < 10 THEN n ELSE 10)
              /\ \A i \in 1..Len(chkOut.sample_urls) : chkOut.sample_urls[i] = children[i].loc
              /\ n = 15 => chkOut.url_count = 15 /\ Len(chkOut.sample_urls) = 10
        /\ WellFormed("sitemapindex", "sitemap") =>
              /\ chkOut.is_sitemap_index
              /\ chkOut.url_count = n
              /\ Len(chkOut.sub_sitemaps) = n

\* a sitemap of 15 URLs has been parsed
C21_Witness ==
    /\ WellFormed("urlset", "url")
    /\ Len(chkIn.net.doc.children) = 15
    /\ chkOut.url_count = 15
    /\ Len(chkOut.sample_urls) = 10
    /\ chkOut.sample_urls[10] = "https://a.example/p10"

\* an index of 3 sitemaps has been parsed
C21_WitnessIndex ==
    /\ WellFormed("sitemapindex", "sitemap")
    /\ Len(chkIn.net.doc.children) = 3
    /\ chkOut.is_sitemap_index
    /\ Len(chkOut.sub_sitemaps) = 3

\* C22: CheckSitemap tries the candidates in the order /sitemap.xml,
\* /sitemap_index.xml, /sitemap-index.xml, /sitemaps.xml, each under HTTPS
\* then HTTP, and stops at the first one that returns HTTP 200: the report
\* has exists = true only if some candidate returned 200, and then
\* sitemap_url is that first candidate; when no candidate returns 200 the
\* report has exists = false.
C22_FirstCandidateAnswered200 ==
    Returned({"sitemap"}) =>
        LET urls == SitemapCandidates(CleanDomain(chkIn.input))
        IN  /\ chkOut.exists => Answered200 # {}
            /\ Answered200 # {} =>
                  /\ chkOut.exists
                  /\ \E k \in Answered200 :
                        /\ \A j \in Answered200 : k <= j
                        /\ chkOut.sitemap_url = Str(urls[k])
            /\ Answered200 = {} => ~chkOut.exists

\* the robots.txt of the call has been fetched, read and parsed
RobotsParsed ==
    /\ Returned({"robots_txt"})
    /\ chkOut.exists
    /\ chkOut.error = ""

\* the lines of the file with the given field and a non-empty value, in the
\* order of the file
RuleLines(field) ==
    LET lines   == chkIn.net.robots
        Keep(i) == RobotsField(lines[i]) = field /\ RobotsValue(lines[i]) # ""
    IN  SelectSeq([i \in 1..Len(lines) |-> i], Keep)

\* the user-agent lines before line i
AgentLines(i) == {j \in 1..(i - 1) : RobotsField(chkIn.net.robots[j]) = "user-agent"}

\* the value of the most recent user-agent line before line i, "*" when
\* there is none
AgentAt(i) ==
    IF AgentLines(i) = {} THEN "*"
    ELSE RobotsValue(chkIn.net.robots[CHOOSE j \in AgentLines(i) : \A k \in AgentLines(i) : k <= j])

\* the rules of a field are recorded, one per line, under the agent of the
\* most recent user-agent line
RulesRecorded(field, recorded) ==
    /\ Len(recorded) = Len(RuleLines(field))
    /\ \A k \in 1..Len(RuleLines(field)) :
          LET i == RuleLines(field)[k]
          IN  AgentLines(i) # {} =>
                 recorded[k] = AgentAt(i) \o ": " \o RobotsValue(chkIn.net.robots[i])

\* the crawl-delay lines of the file
DelayLines == {i \in 1..Len(chkIn.net.robots) : RobotsField(chkIn.net.robots[i]) = "crawl-delay"}

\* C23 as stated: CheckRobotsTxt parsing: scanning the lines in order, every
\* disallow/allow line with a non-empty value is recorded as
\* "<agent>: <path>" where <agent> is the value of the most recent preceding
\* user-agent line, and crawl_delay equals the value of the last crawl-delay
\* line in the file (last one wins).
C23_RobotsLastDelayWins ==
    RobotsParsed =>
        /\ RulesRecorded("disallow", chkOut.disallowed)
        /\ RulesRecorded("allow", chkOut.allowed)
        /\ DelayLines # {} =>
              chkOut.crawl_delay =
                 RobotsValue(chkIn.net.robots[CHOOSE i \in DelayLines : \A j \in DelayLines : j <= i])

\* the crawl-delay lines that have a value
ValuedDelayLines == {i \in DelayLines : RobotsValue(chkIn.net.robots[i]) # ""}

\* C23 amended: every disallow/allow line with a non-empty value is
\* recorded as "<agent>: <path>", <agent> being the value of the most recent
\* preceding user-agent line and "*" when there is none, and crawl_delay is
\* the value of the last crawl-delay line that has a non-empty value, empty
\* when the file has none.
C23_RobotsLastValuedDelayWins ==
    RobotsParsed =>
        /\ RulesRecorded("disallow", chkOut.disallowed)
        /\ RulesRecorded("allow", chkOut.allowed)
        /\ \A k \in 1..Len(RuleLines("disallow")) :
              chkOut.disallowed[k] =
                 AgentAt(RuleLines("disallow")[k]) \o ": "
                    \o RobotsValue(chkIn.net.robots[RuleLines("disallow")[k]])
        /\ \A k \in 1..Len(RuleLines("allow")) :
              chkOut.allowed[k] =
                 AgentAt(RuleLines("allow")[k]) \o ": "
                    \o RobotsValue(chkIn.net.robots[RuleLines("allow")[k]])
        /\ chkOut.crawl_delay =
              IF ValuedDelayLines = {} THEN ""
              ELSE RobotsValue(chkIn.net.robots[CHOOSE i \in ValuedDelayLines :
                                                   \A j \in ValuedDelayLines : j <= i])

\* a file with two groups, a rule in each and two delays has been parsed
C23_Witness ==
    /\ RobotsParsed
    /\ chkIn.net.robots = << <<"User-agent", ":", " ", "a">>, <<"Crawl-delay", ":", " ", "5">>,
                             <<"Disallow", ":", " ", "/x">>, <<"crawl-delay", ":", "10">> >>
    /\ chkOut.disallowed = <<"a: /x">>
    /\ chkOut.crawl_delay = "10"

\* what the i-th server of the table answered in the call
AnswerOf(i) == LookupIPAddr(blocklistDNSServers[i].IP, chkIn.net)

\* C24: CheckBlocklist returns exactly one result per entry of the
\* DNS-server table, in table order; a server's is_blocked is true exactly
\* when resolution through that server failed or some returned address is in
\* the known block-IP table, and it does not depend on the outcome of any
\* other server's check.
C24_OneResultPerServer ==
    Returned({"blocklist"}) =>
        /\ Len(chkOut.results) = Len(blocklistDNSServers)
        /\ \A i \in 1..Len(blocklistDNSServers) :
              /\ chkOut.results[i].server = blocklistDNSServers[i].Name
              /\ chkOut.results[i].server_ip = blocklistDNSServers[i].IP
              /\ chkOut.results[i].is_blocked <=>
                    \/ AnswerOf(i).err
                    \/ \E a \in Range(AnswerOf(i).addrs) : a \in Range(knownBlockIPs)

\* the first server does not answer, a later one returns a block address
\* after another address, the last one answers with the site's address
C24_Witness ==
    /\ Returned({"blocklist"})
    /\ AnswerOf(1).err
    /\ AnswerOf(7) = [err |-> FALSE, addrs |-> <<"192.0.2.1", "77.88.8.7">>]
    /\ AnswerOf(17) = [err |-> FALSE, addrs |-> <<"192.0.2.1">>]
    /\ chkOut.results[1].is_blocked
    /\ chkOut.results[7].is_blocked
    /\ ~chkOut.results[17].is_blocked
    /\ ~chkOut.results[2].is_blocked

\* ------------------------------------------------------------------------
\* What the cache holds after a miss
\* ------------------------------------------------------------------------
\* the checker behind a route that has a TTL
CheckerOfRoute ==
    ( "/api/v1/ssl"          :> "ssl" ) @@
    ( "/api/v1/http3"        :> "http3" ) @@
    ( "/api/v1/dns"          :> "dns" ) @@
    ( "/api/v1/ip"           :> "ip" ) @@
    ( "/api/v1/my-ip"        :> "ip" ) @@
    ( "/api/v1/web-settings" :> "web_settings" ) @@
    ( "/api/v1/email-config" :> "email_config" ) @@
    ( "/api/v1/blocklist"    :> "blocklist" ) @@
    ( "/api/v1/robots-txt"   :> "robots_txt" ) @@
    ( "/api/v1/sitemap"      :> "sitemap" ) @@
    ( "/api/v1/og-image"     :> "og_image" )

\* the parameter a route's cache key is made of, and what the checker is
\* called with
KeyParam(req) ==
    CASE req.path = "/api/v1/ip" ->
            [name |-> "input", value |-> IF req.query.ip = "" THEN req.query.domain
                                         ELSE req.query.ip]
      [] req.path = "/api/v1/my-ip" ->
            [name |-> "ip", value |-> getRealClientIP(req)]
      [] req.path = "/api/v1/og-image" ->
            [name |-> "url", value |-> IF req.query.url = "" THEN req.query.domain
                                       ELSE req.query.url]
      [] OTHER -> [name |-> "domain", value |-> req.query.domain]

\* the cache key of the last request
KeyOfLast ==
    cacheKey(srvLast.req.path, KeyParam(srvLast.req).name :> KeyParam(srvLast.req).value,
             <<KeyParam(srvLast.req).name>>)

\* the last request missed the cache of a route that has a TTL: its handler
\* called the checker
MissedCache ==
    /\ srvLast.called
    /\ srvLast.req.path \in DOMAIN routeTTL
    /\ srvLast.checks > 0

\* the report the checker returned to the handler of the last request
CheckerReport ==
    Check(CheckerOfRoute[srvLast.req.path], Tokens(KeyParam(srvLast.req).value),
          IF srvLast.failed THEN NetworkDown ELSE NetworkUp)

\* the last request came within the TTL of a report stored for its route
\* and parameters
WithinTTLOfStore ==
    /\ srvLast.called
    /\ srvLast.req.path \in DOMAIN routeTTL
    /\ srvLast.resp.status = StatusOK
    /\ srvLast.hadStored
    /\ srvLast.at <= srvLast.stored.at + routeTTL[srvLast.req.path]

C25_WitnessMiss ==
    /\ MissedCache
    /\ srvLast.failed
    /\ srvLast.sets = 1
    /\ items[KeyOfLast].value.error # ""

\* ------------------------------------------------------------------------
\* Goroutines side by side
\* ------------------------------------------------------------------------
\* the goroutines inside the critical section of allow
InAllow == {g \in DOMAIN allowCalls : allowCalls[g].pc \in {"lookup", "refill", "check", "deduct", "unlock"}}

\* the calls of allow that have returned, and those that returned true
Returned26 == {g \in DOMAIN allowCalls : allowCalls[g].pc = "done"}

Admitted26 == {g \in Returned26 : allowCalls[g].ok}

\* C26: under any interleaving of concurrent allow calls on the same
\* (clientIP, route) key, each call's refill-check-deduct sequence is atomic:
\* at most one call is between its Lock and its Unlock; with no time
\* elapsing, N concurrent calls on a bucket holding t tokens admit exactly
\* min(N, floor(t)) of them, and no token is spent twice or lost: the bucket
\* is left with t less one token per admitted call.
C26_AllowAtomic ==
    /\ Cardinality(InAllow) <= 1
    /\ InAllow # {} => mu \in InAllow
    /\ (allowCalls # <<>> /\ ticks = 0) =>
          LET N    == Len(allowCalls)
              held == allowCalls[1].held
              key  == allowCalls[1].key
          IN  /\ Cardinality(Admitted26) * Float(1) <= held
              /\ Returned26 = DOMAIN allowCalls =>
                    /\ Cardinality(Admitted26) =
                          (IF N < held \div Float(1) THEN N ELSE held \div Float(1))
                    /\ buckets[key].tokens = held - Cardinality(Admitted26) * Float(1)

\* three calls on a bucket that holds one token and a half have returned:
\* one was admitted
C26_Witness ==
    /\ Len(allowCalls) = 3
    /\ Returned26 = DOMAIN allowCalls
    /\ ticks = 0
    /\ allowCalls[1].held = Float(1) + Float(1) \div 2
    /\ Cardinality(Admitted26) = 1
    /\ buckets[allowCalls[1].key].tokens = Float(1) \div 2

\* C27: under any interleaving of concurrent Cache.Get and Cache.Set calls
\* on the same key, Get never removes an entry that is unexpired: the entry
\* that Get's delete step removes, whichever Set wrote it, is one whose own
\* expiry has passed.
C27_GetRemovesOnlyExpired ==
    \A g \in DOMAIN cacheCalls :
        (cacheCalls[g].deleted.done /\ cacheCalls[g].deleted.had) =>
            cacheCalls[g].deleted.at > cacheCalls[g].deleted.expiry

\* a goroutine that has a result to send finds room in the channel
NoSenderBlocked ==
    \A task \in ComprehensiveTasks :
        goroutines[task].pc \in {"check", "send"} => Len(resultChan) < ResultChanCap

\* the results sent so far: those received and those in the channel
ResultsSent == agg.i + Len(resultChan)

\* C28: in the comprehensive handler no task ever blocks sending to the
\* completion channel (at most 7 entries are ever sent into a channel of
\* capacity 7), so provided each of the six checker calls returns, every
\* task terminates, the handler eventually responds, and the channel is
\* empty when it does.
C28_NoTaskBlocksHandlerResponds ==
    /\ [](NoSenderBlocked /\ ResultsSent <= ResultChanCap)
    /\ [](agg.pc = "done" /\ agg.domain # "" => resultChan = <<>>)
    /\ (agg.pc = "recv") ~>
          ( /\ agg.pc = "done"
            /\ resultChan = <<>>
            /\ \A task \in ComprehensiveTasks : goroutines[task].pc = "done" )

\* all seven results are in the channel before the handler has received
\* one: the channel is full and every task has terminated
C28_Witness ==
    /\ agg.pc = "recv"
    /\ agg.i = 0
    /\ Len(resultChan) = ResultChanCap
    /\ \A task \in ComprehensiveTasks : goroutines[task].pc = "done"

\* the last request was a my-ip request answered with a report
MyIPAnswered ==
    /\ srvLast.called
    /\ srvLast.req.path = "/api/v1/my-ip"
    /\ srvLast.resp.status = StatusOK

\* C29: my-ip isolation: after any sequence of my-ip requests from any
\* clients, the report returned to a request whose derived client IP is A
\* names A (ip == A and input == "Your IP: A") and is never a cached report
\* computed for a different client IP B.
C29_MyIPNamesClient ==
    MyIPAnswered =>
        /\ srvLast.resp.data.ip = srvLast.client
        /\ srvLast.resp.data.input = "Your IP: " \o srvLast.client

\* the part of C29 that holds: the report is the one made for the derived
\* client address, also when it comes out of the cache after other clients'
\* reports were stored
MyIPReportIsOwn ==
    MyIPAnswered => srvLast.resp.data.input = "Your IP: " \o srvLast.client

\* a report served from the cache to a client after another client's
\* report was stored
MyIPCachedAmongOthers ==
    /\ MyIPAnswered
    /\ srvLast.checks = 0
    /\ \E id \in DOMAIN srvStored : id[3] # srvLast.client

\* the step serves a request
Served == nreq' = nreq + 1

\* the bucket of the request served, as allow finds it: refilled, or new
BucketFound ==
    LET key == RLKey(srvLast'.client, srvLast'.req.path)
    IN  Refill(IF key \in DOMAIN buckets THEN buckets[key]
               ELSE tokenBucket(RouteRpm(srvLast'.req.path), now),
               now)

\* the request served came out of the cache: looked up, no checker run
ServedFromCache ==
    /\ srvLast'.resp.status = StatusOK
    /\ srvLast'.gets > 0
    /\ srvLast'.checks = 0

\* C30: admission ordering: for every /api/v1 request the authentication
\* middleware runs before the rate limiter and the rate limiter before the
\* handler's cache lookup, so a request rejected by authentication consumes
\* no token and creates no bucket, while an admitted request that is served
\* from the cache still consumes one token.
C30_AdmissionOrdering ==
    [][ Served =>
          /\ srvLast'.limited => srvLast'.authNext
          /\ srvLast'.gets > 0 => srvLast'.limited /\ srvLast'.allowed
          /\ ~srvLast'.authNext =>
                /\ buckets' = buckets
                /\ ~srvLast'.limited
                /\ srvLast'.gets = 0
          /\ ServedFromCache =>
                LET key == RLKey(srvLast'.client, srvLast'.req.path)
                IN  /\ key \in DOMAIN buckets'
                    /\ buckets'[key].tokens = BucketFound.tokens - Float(1)
                    /\ \A k \in DOMAIN buckets : k # key => buckets'[k] = buckets[k]
      ]_vars

\* a request rejected by authentication after a bucket was made, and never
\* a bucket for its own route
C30_WitnessRejected ==
    /\ srvLast.called
    /\ ~srvLast.authNext
    /\ DOMAIN buckets # {}
    /\ RLKey(srvLast.client, srvLast.req.path) \notin DOMAIN buckets

\* a request served from the cache: its bucket is two tokens down, one for
\* the request that stored the report and one for this one
C30_Witness ==
    /\ srvLast.called
    /\ srvLast.resp.status = StatusOK
    /\ srvLast.gets > 0
    /\ srvLast.checks = 0
    /\ LET key == RLKey(srvLast.client, srvLast.req.path)
       IN  /\ key \in DOMAIN buckets
           /\ buckets[key].tokens = Float(RouteRpm(srvLast.req.path)) - Float(2)

====
